---- MODULE Spec2Model ----
(***************************************************************************)
(* Example-based attribution engines of RobustXAI                          *)
(* (src/interpretability/example.py): the cached gradient engines TracIn   *)
(* and InfluenceFunctions, their graph variants, the forward-hook capture  *)
(* of SimplEx / RepresentationSimilarity and the simplex weighting.        *)
(*                                                                         *)
(* Tensors are integer vectors (sequences).  The model collaborator is a   *)
(* two-layer scalar network  h = body*x,  out = w*h + b  with the loss     *)
(* 0.5*(out-y)^2; its last layer holds the parameters w and b.             *)
(***************************************************************************)
EXTENDS Integers, Sequences, FiniteSets, TLC

\* ------------------------------------------------------------------ bounds
MaxTrain == 2      \* longest training set X_train
MaxTest == 2       \* longest test batch x of one query
MaxCkpt == 2       \* longest checkpoint list
MaxQueries == 2    \* forward calls in one behaviour
MaxDepth == 1      \* largest recursion_depth
MaxSharedQueries == 3  \* forward calls in one behaviour of SharedSpec
MaxBatch == 2      \* largest batch size of the data_train loader of a graph engine
MaxGraphQueries == 2   \* forward calls in one behaviour of GraphSpec
MaxHookBatch == 2  \* longest input batch of a forward pass in HookSpec
MaxPasses == 3     \* forward passes of the model in one behaviour of HookSpec
MaxRows == 2       \* most rows (examples) of an activation matrix in WeightSpec
MaxEpoch == 2      \* largest n_epoch in WeightSpec
MaxHvpCalls == 2   \* calls of hessian_vector_product in one behaviour of HvpSpec
MaxBackward == 1   \* backward passes of the caller in one behaviour of HvpSpec
MaxLoads == 3      \* checkpoint loads in one behaviour of LoadSpec
MaxInvBatch == 2   \* most test examples of one invariance measurement
GroupSize == 3     \* elements of the translation group, and length of a signal
MaxFiles == 3      \* most files of a checkpoint directory in BestSpec
MaxLoader == 2     \* most mini-batches one pass over the sampling loader yields

\* ------------------------------------------------------- program constants
Scale == 1000      \* evaluate_ihvp(scale=1000)
DampScaled == 1    \* evaluate_ihvp(damp=1e-3), as damp*scale

VARIABLES
  theta,      \* the shared model's parameters: [Keys -> Int]
  eng,        \* the engine instances: [Inst -> record], kind "none" before construction
  dirs,       \* the directories that exist
  files,      \* the cache files: path -> [val, den, by, th, batches]
  pc,         \* "idle", "precompute" or "query": where the running forward call is
  cur,        \* the instance of the running (or last) forward call, 0 before any
  xq,         \* the test batch of the running (or last) call
  ti,         \* precompute: index of the next training example (1-based)
  qi,         \* query: index of the next / current test example (1-based)
  tj,         \* query: index of the next cache file to read; 0 before the test gradient
  test_grad,  \* the test gradient of the current test example
  attribution,\* the attribution matrix of the running call
  outcome,    \* "none", "running", "ok" or "raised": how the last forward call ended
  nForward,   \* per instance: forward calls begun
  nCompute,   \* per instance: calls of compute_train_grads / evaluate_ihvp
  nTestGrad,  \* test gradients computed by the running call
  reads,      \* cache files read by the running call
  readLog,    \* the cache files read by the running call: [j, by, fresh]
  hook,       \* hook-capture state (HookSpec)
  graph,      \* graph-engine state (GraphSpec)
  sx,         \* simplex-weighting state (WeightSpec)
  fn          \* one call of a stand-alone function: its arguments and result

engineVars == <<theta, eng, dirs, files, pc, cur, xq, ti, qi, tj, test_grad,
                attribution, outcome, nForward, nCompute, nTestGrad, reads, readLog>>
vars == <<theta, eng, dirs, files, pc, cur, xq, ti, qi, tj, test_grad,
          attribution, outcome, nForward, nCompute, nTestGrad, reads, readLog,
          hook, graph, sx, fn>>

\* ------------------------------------------------------------ vector algebra
RECURSIVE SumTo(_, _)
SumTo(f, n) == IF n = 0 THEN 0 ELSE f[n] + SumTo(f, n - 1)

\* torch.dot
Dot(u, v) == SumTo([k \in 1..Len(u) |-> u[k] * v[k]], Len(u))

\* elementwise sum, as the in-place  grad += ...
VAdd(u, v) == [k \in 1..Len(u) |-> u[k] + v[k]]

VScale(c, u) == [k \in 1..Len(u) |-> c * u[k]]

RECURSIVE Pow(_, _)
Pow(b, n) == IF n = 0 THEN 1 ELSE b * Pow(b, n - 1)

\* utils.misc.direct_sum: flatten every tensor of the list and concatenate
RECURSIVE direct_sum(_)
direct_sum(tensors) ==
  IF tensors = <<>> THEN <<>> ELSE Head(tensors) \o direct_sum(Tail(tensors))

\* ------------------------------------------------------- model collaborator
Keys == {"body", "w", "b"}

Theta0 == [body |-> 1, w |-> 1, b |-> 1]
Theta1 == [body |-> 2, w |-> 0, b |-> 1]
ThetaPool == {Theta0, Theta1}

\* an example is <<x, y>>
Example1 == <<1, 0>>
Example2 == <<2, 1>>
TrainPool == <<Example1, Example2, Example1>>
TestPool == {Example1, Example2}

\* the output of the hidden layer and of the model
Hidden(th, x) == th.body * x
ModelOut(th, x) == th.w * Hidden(th, x) + th.b

\* torch.autograd.grad(loss, last_layer.parameters()): one tensor per parameter
\* of the last layer, the weight (1x1) and the bias (1)
LastLayerGrads(th, ex) ==
  LET r == ModelOut(th, ex[1]) - ex[2]
  IN  << <<r * Hidden(th, ex[1])>>, <<r>> >>

\* "grad = None": no gradient accumulated yet (a gradient is never empty)
None == <<>>

\* --------------------------------------------------------- checkpoint store
\* a checkpoint path is <<stem, suffix>>
CkptA == <<"a", ".pt">>
CkptB == <<"b", ".ckpt">>
CkptC == <<"c", ".pt">>
CkptPaths == {CkptA, CkptB, CkptC}

\* two more files: a checkpoint of the training harness kept under a name
\* with ".ckpt" inside it, and one saved under a plain name
CkptD == <<"d", ".ckpt", ".bak">>
CkptE == <<"e", ".pt">>
LoadPaths == CkptPaths \cup {CkptD, CkptE}

\* a checkpoint of the last layer only: its weight and its bias
CkptH == <<"h", ".pt">>

\* torch.load(checkpoint_path): a raw parameter mapping, or the mapping under
\* "state_dict" for a checkpoint of the training harness; CkptC holds the
\* weight of the last layer only
TorchLoadCkpt(path) ==
  CASE path = CkptA -> [body |-> 1, w |-> 1, b |-> 0]
    [] path = CkptB -> [state_dict |-> [body |-> 1, w |-> 2, b |-> 1]]
    [] path = CkptC -> [w |-> 0]
    [] path = CkptD -> [state_dict |-> [body |-> 2, w |-> 1, b |-> 0]]
    [] path = CkptE -> [state_dict |-> [body |-> 2, w |-> 2, b |-> 2]]
    [] path = CkptH -> [w |-> 2, b |-> 1]

\* mutant: the name must end with ".ckpt"
nameEndsWithCkpt(name) == name[Len(name)] = ".ckpt"

\* ".ckpt" in Path(checkpoint_path).name
nameContainsCkpt(name) == \E k \in 1..Len(name) : name[k] = ".ckpt"

load_model_dict(checkpoint_path) ==
  LET model_dict == TorchLoadCkpt(checkpoint_path)
  IN  IF nameContainsCkpt(checkpoint_path)
      THEN model_dict.state_dict
      ELSE model_dict

\* mutant: the checkpoint is not loaded into the model
loadStateDictIgnored(th, state_dict) == th

\* mutant: a parameter absent from the checkpoint is reset
loadStateDictResetsAbsent(th, state_dict) ==
  [k \in Keys |-> IF k \in DOMAIN state_dict THEN state_dict[k] ELSE 0]

\* model.load_state_dict(state_dict, strict=False)
load_state_dict(th, state_dict) ==
  [k \in Keys |-> IF k \in DOMAIN state_dict THEN state_dict[k] ELSE th[k]]

\* the parameters put back by a loop that restores the model it was given
modelRestored(before, loop) == before

\* the model after the checkpoint loop: load_state_dict writes into the model
\* in place and nothing puts the earlier parameters back
ModelAfterLoop(before, loop) == loop.th

\* mutant: the gradient of the latest checkpoint replaces the sum
accumulateLatest(grad, g) == g

\* "if grad is not None: grad += direct_sum(...)  else: grad = direct_sum(...)"
Accumulate(grad, g) == IF grad # None THEN VAdd(grad, g) ELSE g

\* the checkpoint loop of TracIn.forward / compute_train_grads for one example:
\* the accumulated gradient (None for an empty list) and the parameters the
\* model is left with
RECURSIVE CheckpointLoop(_, _, _, _)
CheckpointLoop(th, checkpoints, ex, grad) ==
  IF checkpoints = <<>> THEN [grad |-> grad, th |-> th]
  ELSE LET th1 == load_state_dict(th, load_model_dict(Head(checkpoints)))
           g == direct_sum(LastLayerGrads(th1, ex))
       IN  CheckpointLoop(th1, Tail(checkpoints), ex, Accumulate(grad, g))

\* ------------------------------------------------- Hessian-vector product
\* the parameters of the last layer, in the order direct_sum flattens their
\* gradients: the weight, then the bias
LastLayer(th) == <<th.w, th.b>>
WithLastLayer(th, p) == [th EXCEPT !.w = p[1], !.b = p[2]]

Shift(p, k, d) == [p EXCEPT ![k] = @ + d]

\* twice the loss of a batch, as a function of the last layer's parameters p
TwiceBatchLoss(th, batch, p) ==
  SumTo([k \in 1..Len(batch) |->
           (ModelOut(WithLastLayer(th, p), batch[k][1]) - batch[k][2])
             * (ModelOut(WithLastLayer(th, p), batch[k][1]) - batch[k][2])],
        Len(batch))

MatVec(A, v) == [j \in 1..Len(A) |-> Dot(A[j], v)]

\* twice the quadratic loss 0.5 * p^T A p
TwiceQuadLoss(A, p) == Dot(p, MatVec(A, p))

\* twice a loss tensor as a function of the last layer's parameters p: a loss
\* is <<"batch", batch>>, the loss of the model on a batch, or <<"quad", A>>,
\* the loss 0.5 * p^T A p
TwiceLossOf(loss, th, p) ==
  IF loss[1] = "batch" THEN TwiceBatchLoss(th, loss[2], p) ELSE TwiceQuadLoss(loss[2], p)

\* direct_sum(torch.autograd.grad(loss, parameters, create_graph=True)) at the
\* parameter values p: the derivative of a loss that is a polynomial of degree
\* two in p, exact as a central difference of twice the loss
autograd_grad(loss, th, p) ==
  [k \in 1..Len(p) |->
     (TwiceLossOf(loss, th, Shift(p, k, 1)) - TwiceLossOf(loss, th, Shift(p, k, -1))) \div 4]

\* mutant: the first gradients are summed, the vector is not used
elemwiseWithoutV(first_grads, v) == SumTo(first_grads, Len(first_grads))

\* torch.dot(first_grads.flatten(), v.flatten())
elemwise_products(first_grads, v) == Dot(first_grads, v)

\* the second backprop: the derivative with respect to the parameters of the
\* scalar elemwise_products, v held constant; the scalar is of degree one in p
HVP_(loss, th, p, v) ==
  LET scalar(q) == elemwise_products(autograd_grad(loss, th, q), v)
  IN  [k \in 1..Len(p) |-> (scalar(Shift(p, k, 1)) - scalar(Shift(p, k, -1))) \div 2]

\* hessian_vector_product(loss, v) for the loss of a batch: one tensor per
\* parameter of the last layer
hessian_vector_product(th, batch, v) ==
  LET flat == HVP_(<<"batch", batch>>, th, LastLayer(th), v)
  IN  << <<flat[1]>>, <<flat[2]>> >>

\* the recursion of evaluate_ihvp on the mini-batches drawn, in exact
\* arithmetic: after t steps ihvp is the value  num / Scale^t, and
\*   ihvp <- grad + (1 - damp)*ihvp - hvp/scale
\* is  num <- Scale^(t+1)*grad + (Scale - damp*Scale)*num - HVP(num)

\* mutant: the step without the damping term
IhvpStepUndamped(th, grad, ihvp, batch, t) ==
  LET hvp == direct_sum(hessian_vector_product(th, batch, ihvp))
  IN  VAdd(VAdd(VScale(Pow(Scale, t + 1), grad), VScale(Scale, ihvp)), VScale(-1, hvp))

\* one step of the recursion on one mini-batch
IhvpStep(th, grad, ihvp, batch, t) ==
  LET ihvp_prev == ihvp
      hvp == direct_sum(hessian_vector_product(th, batch, ihvp_prev))
  IN  VAdd(VAdd(VScale(Pow(Scale, t + 1), grad),
                VScale(Scale - DampScaled, ihvp)),
           VScale(-1, hvp))

RECURSIVE IhvpLoop(_, _, _, _, _)
IhvpLoop(th, grad, ihvp, batches, t) ==
  IF batches = <<>> THEN ihvp
  ELSE IhvpLoop(th, grad, IhvpStep(th, grad, ihvp, Head(batches), t), Tail(batches), t + 1)

\* ------------------------------------------------------------ the engines
Inst == {1, 2}
SaveDirs == {"d1", "d2"}

RECURSIVE SeqsUpTo(_, _)
SeqsUpTo(S, n) ==
  IF n = 0 THEN {<<>>}
  ELSE LET shorter == SeqsUpTo(S, n - 1)
       IN  shorter \cup {Append(s, e) : s \in {t \in shorter : Len(t) = n - 1}, e \in S}

\* the checkpoint lists: every list of distinct checkpoints, in every order
CkptLists ==
  {l \in SeqsUpTo(CkptPaths, MaxCkpt) :
     \A a, b \in 1..Len(l) : l[a] = l[b] => a = b}
TestBatches == SeqsUpTo(TestPool, MaxTest)
\* the mini-batches the sampling loader can yield
BatchPool == {<<Example1>>, <<Example2, Example1>>}

NoEngine == [kind |-> "none", n |-> 0, save_dir |-> "", checkpoints |-> <<>>,
             recursion_depth |-> 0, loader_len |-> 0,
             train_grads |-> FALSE, ihvp |-> FALSE]

X_train(i) == SubSeq(TrainPool, 1, eng[i].n)

\* save_dir / "tracin"  and  save_dir / "influence_functions"
CacheDir(i) ==
  <<eng[i].save_dir,
    IF eng[i].kind = "tracin" THEN "tracin" ELSE "influence_functions">>

\* save_dir / f"train_grad{idx}.pt"  and  save_dir / f"train_ihvp{idx}.pt"
CachePath(i, idx) ==
  <<eng[i].save_dir,
    IF eng[i].kind = "tracin" THEN "tracin" ELSE "influence_functions",
    IF eng[i].kind = "tracin" THEN "train_grad" ELSE "train_ihvp",
    idx>>

\* torch.save: create or overwrite one file
Save(fs, path, rec) ==
  [p \in DOMAIN fs \cup {path} |-> IF p = path THEN rec ELSE fs[p]]

\* whether precomputation has completed on instance i
Precomputed(i) ==
  IF eng[i].kind = "tracin" THEN eng[i].train_grads ELSE eng[i].ihvp

\* mutant: forward precomputes in every call
NeedsPrecomputeAlways(i) == TRUE

\* "if not self.train_grads:" / "if not self.ihvp:"
NeedsPrecompute(i) == ~Precomputed(i)

\* mutant: the flag is never set
SetFlagNever(e) == e

\* "self.train_grads = True" / "self.ihvp = True"
SetFlag(e) ==
  IF e.kind = "tracin" THEN [e EXCEPT !.train_grads = TRUE]
                       ELSE [e EXCEPT !.ihvp = TRUE]

\* ------------------------------------------------------------ construction
\* TracIn.__init__ / InfluenceFunctions.__init__: the flag starts False and the
\* cache directory is created; nothing is computed.  The second instance is of
\* the first one's engine type.
Construct(i, kind, sd, n, ckpts, depth, ll) ==
  /\ pc = "idle"
  /\ eng[i].kind = "none"
  /\ i = 1 \/ (eng[1].kind = kind)
  /\ eng' = [eng EXCEPT ![i] =
               [kind |-> kind, n |-> n, save_dir |-> sd, checkpoints |-> ckpts,
                recursion_depth |-> depth, loader_len |-> ll,
                train_grads |-> FALSE, ihvp |-> FALSE]]
  /\ dirs' = dirs \cup {<<sd, IF kind = "tracin" THEN "tracin" ELSE "influence_functions">>}
  /\ UNCHANGED <<theta, files, pc, cur, xq, ti, qi, tj, test_grad, attribution,
                 outcome, nForward, nCompute, nTestGrad, reads, readLog>>

ConstructTracIn(I, Dirs, Lists) ==
  \E i \in I, sd \in Dirs, n \in 0..MaxTrain, ckpts \in Lists :
    Construct(i, "tracin", sd, n, ckpts, 0, 0)

ConstructInfluenceFunctions(I, Dirs) ==
  \E i \in I, sd \in Dirs, n \in 0..MaxTrain,
     depth \in 0..MaxDepth, ll \in 0..MaxDepth :
    Construct(i, "if", sd, n, <<>>, depth, ll)

\* ------------------------------------------------------------------ forward
\* torch.zeros((len(x), len(self.X_train)))
Zeros(rows, cols) == [r \in 1..rows |-> [c \in 1..cols |-> <<0, 1>>]]

\* mutant: the pass resumes after the files the instance has already written
resumeAfterWritten(i) == Cardinality({p \in DOMAIN files : files[p].by = i}) + 1

\* enumerate(self.subtrain_loader): a pass starts at the first training
\* example, train_idx 0 (ti is train_idx + 1)
StartOfPass(i) == 1

\* the first lines of forward: run the precomputation when the flag is False,
\* else go on to the fresh attribution matrix and the test loop
Forward(i, x, maxq) ==
  /\ pc = "idle"
  /\ eng[i].kind # "none"
  /\ nForward[1] + nForward[2] < maxq
  /\ nForward' = [nForward EXCEPT ![i] = @ + 1]
  /\ cur' = i
  /\ xq' = x
  /\ outcome' = "running"
  /\ reads' = 0
  /\ nTestGrad' = 0
  /\ readLog' = {}
  /\ test_grad' = None
  /\ qi' = 1
  /\ tj' = 0
  /\ attribution' = Zeros(Len(x), eng[i].n)
  /\ IF NeedsPrecompute(i)
     THEN /\ pc' = "precompute"
          /\ ti' = StartOfPass(i)
          /\ nCompute' = [nCompute EXCEPT ![i] = @ + 1]
     ELSE /\ pc' = "query"
          /\ ti' = 0
          /\ UNCHANGED nCompute
  /\ UNCHANGED <<theta, eng, dirs, files>>

\* mutant: the exception is swallowed and the call returns what it has
RaiseSwallowed ==
  /\ pc' = "idle"
  /\ outcome' = "ok"

\* an exception leaves forward: the call ends without a return value
Raise ==
  /\ pc' = "idle"
  /\ outcome' = "raised"

\* mutant: detaching None gives None
detachAcceptsNone(grad) == FALSE

\* grad.detach() / test_grad.detach(): None has no attribute detach
DetachRaises(grad) == grad = None

\* one iteration of the loop of compute_train_grads: replay the checkpoints on
\* training example train_idx and save the summed gradient;  grad.detach()
\* raises when the checkpoint list is empty
TracInTrainStep ==
  /\ pc = "precompute"
  /\ eng[cur].kind = "tracin"
  /\ ti <= eng[cur].n
  /\ LET train_idx == ti - 1
         loop == CheckpointLoop(theta, eng[cur].checkpoints, X_train(cur)[ti], None)
     IN  IF DetachRaises(loop.grad)
         THEN /\ Raise
              /\ UNCHANGED <<theta, files, ti>>
         ELSE /\ theta' = ModelAfterLoop(theta, loop)
              /\ files' = Save(files, CachePath(cur, train_idx),
                               [val |-> loop.grad, den |-> 1, by |-> cur, th |-> theta,
                                batches |-> <<>>])
              /\ ti' = ti + 1
              /\ UNCHANGED <<pc, outcome>>
  /\ UNCHANGED <<eng, dirs, cur, xq, qi, tj, test_grad, attribution,
                 nForward, nCompute, nTestGrad, reads, readLog>>

\* one iteration of the loop of evaluate_ihvp: the gradient of training
\* example train_idx, recursion_depth steps on mini-batches drawn from a new
\* pass over the sampling loader (next() raises once the pass is exhausted),
\* and the save
InfluenceTrainStep ==
  /\ pc = "precompute"
  /\ eng[cur].kind = "if"
  /\ ti <= eng[cur].n
  /\ LET train_idx == ti - 1
         depth == eng[cur].recursion_depth
         grad == direct_sum(LastLayerGrads(theta, X_train(cur)[ti]))
     IN  IF eng[cur].loader_len < depth
         THEN /\ Raise
              /\ UNCHANGED <<files, ti>>
         ELSE \E batches \in [1..depth -> BatchPool] :
                /\ files' = Save(files, CachePath(cur, train_idx),
                                 [val |-> IhvpLoop(theta, grad, grad, batches, 0),
                                  den |-> Pow(Scale, depth), by |-> cur, th |-> theta,
                                  batches |-> batches])
                /\ ti' = ti + 1
                /\ UNCHANGED <<pc, outcome>>
  /\ UNCHANGED <<theta, eng, dirs, cur, xq, qi, tj, test_grad, attribution,
                 nForward, nCompute, nTestGrad, reads, readLog>>

\* the end of compute_train_grads / evaluate_ihvp: the flag is set and forward
\* goes on
PrecomputeDone ==
  /\ pc = "precompute"
  /\ ti > eng[cur].n
  /\ eng' = [eng EXCEPT ![cur] = SetFlag(@)]
  /\ pc' = "query"
  /\ UNCHANGED <<theta, dirs, files, cur, xq, ti, qi, tj, test_grad, attribution,
                 outcome, nForward, nCompute, nTestGrad, reads, readLog>>

\* mutant: the read loop runs for the first test example only
AfterTestGradFirstOnly ==
  IF eng[cur].n = 0 \/ qi > 1
  THEN /\ qi' = qi + 1
       /\ tj' = 0
  ELSE /\ tj' = 1
       /\ UNCHANGED qi

\* after the test gradient: "for train_idx in range(len(self.X_train))", the
\* read loop, or the next test example when there is no training example
AfterTestGrad ==
  IF eng[cur].n = 0
  THEN /\ qi' = qi + 1
       /\ tj' = 0
  ELSE /\ tj' = 1
       /\ UNCHANGED qi

\* mutant: the gradient of the previous test example is kept
testGradCarried(previous) == previous

\* "test_grad = None" at the top of the body of the loop over the test
\* examples
InitialTestGrad(previous) == None

\* TracIn.forward, one test example: replay the checkpoints and sum the test
\* gradients;  test_grad.detach()  raises when the list is empty
TracInTestGrad ==
  /\ pc = "query"
  /\ eng[cur].kind = "tracin"
  /\ qi <= Len(xq)
  /\ tj = 0
  /\ LET loop == CheckpointLoop(theta, eng[cur].checkpoints, xq[qi],
                                InitialTestGrad(test_grad))
     IN  IF DetachRaises(loop.grad)
         THEN /\ Raise
              /\ UNCHANGED <<theta, test_grad, qi, tj, nTestGrad>>
         ELSE /\ theta' = ModelAfterLoop(theta, loop)
              /\ test_grad' = loop.grad
              /\ nTestGrad' = nTestGrad + 1
              /\ AfterTestGrad
              /\ UNCHANGED <<pc, outcome>>
  /\ UNCHANGED <<eng, dirs, files, cur, xq, ti, attribution,
                 nForward, nCompute, reads, readLog>>

\* InfluenceFunctions.forward, one test example: the gradient of the test loss
\* at the model's current parameters
InfluenceTestGrad ==
  /\ pc = "query"
  /\ eng[cur].kind = "if"
  /\ qi <= Len(xq)
  /\ tj = 0
  /\ test_grad' = direct_sum(LastLayerGrads(theta, xq[qi]))
  /\ nTestGrad' = nTestGrad + 1
  /\ AfterTestGrad
  /\ UNCHANGED <<theta, eng, dirs, files, pc, cur, xq, ti, attribution,
                 outcome, nForward, nCompute, reads, readLog>>

\* whether cache file f of training example j holds what the parameters of
\* the model give now
Fresh(i, j, f) ==
  IF eng[i].kind = "tracin"
  THEN f.val = CheckpointLoop(theta, eng[i].checkpoints, X_train(i)[j], None).grad
  ELSE f.th = theta

\* attribution[test_idx, train_idx] = torch.dot(cached, test_grad)
Entry(f, tg) == <<Dot(f.val, tg), f.den>>

\* one iteration of the inner loop of forward: torch.load of the cache file of
\* train_idx (raises when there is no such file) and one entry of the matrix
ReadStep ==
  /\ pc = "query"
  /\ qi <= Len(xq)
  /\ tj >= 1
  /\ LET train_idx == tj - 1
         path == CachePath(cur, train_idx)
     IN  IF path \notin DOMAIN files
         THEN /\ Raise
              /\ UNCHANGED <<attribution, reads, readLog, qi, tj>>
         ELSE /\ attribution' = [attribution EXCEPT ![qi][tj] = Entry(files[path], test_grad)]
              /\ reads' = reads + 1
              /\ readLog' = readLog \cup {[j |-> tj, by |-> files[path].by,
                                           fresh |-> Fresh(cur, tj, files[path])]}
              /\ IF tj < eng[cur].n
                 THEN /\ tj' = tj + 1
                      /\ UNCHANGED qi
                 ELSE /\ tj' = 0
                      /\ qi' = qi + 1
              /\ UNCHANGED <<pc, outcome>>
  /\ UNCHANGED <<theta, eng, dirs, files, cur, xq, ti, test_grad,
                 nForward, nCompute, nTestGrad>>

\* return attribution
Return ==
  /\ pc = "query"
  /\ qi > Len(xq)
  /\ pc' = "idle"
  /\ outcome' = "ok"
  /\ UNCHANGED <<theta, eng, dirs, files, cur, xq, ti, qi, tj, test_grad, attribution,
                 nForward, nCompute, nTestGrad, reads, readLog>>

\* the caller changes the model's trainable parameters between two queries
\* (fine-tuning, loading another snapshot)
ChangeParams ==
  /\ pc = "idle"
  /\ \E th \in ThetaPool : th # theta /\ theta' = th
  /\ UNCHANGED <<eng, dirs, files, pc, cur, xq, ti, qi, tj, test_grad, attribution,
                 outcome, nForward, nCompute, nTestGrad, reads, readLog>>

\* the state before any graph engine, any explainer and any call of
\* compute_weights exists
NoGraphEngine ==
  [kind |-> "none", n |-> 0, batch_size |-> 1, order |-> <<>>, checkpoints |-> <<>>,
   recursion_depth |-> 0, loader_len |-> 0, flag |-> FALSE, files |-> <<>>,
   pc |-> "idle", idx |-> 0, data |-> <<>>, test_grad |-> None, train_idx |-> 0,
   attribution |-> <<>>, outcome |-> "none", nForward |-> 0]

Expl == {1, 2}

NoExplainer == [kind |-> "none", H |-> <<>>, H_train |-> <<>>, removed |-> FALSE]

HookInit0 ==
  [expl |-> [e \in Expl |-> NoExplainer], hooks |-> {}, geometric |-> FALSE,
   lastIn |-> <<>>, lastOut |-> <<"Tensor", <<>>>>,
   nPass |-> 0, result |-> [e |-> 0, H |-> <<>>, H_train |-> <<>>]]

NoFn == [op |-> "none"]

NoCall ==
  [H |-> <<>>, H_train |-> <<>>, n_epoch |-> 0, epoch |-> 0, preweights |-> <<>>,
   weights |-> <<>>, pc |-> "idle"]

EngineInit ==
  /\ theta = Theta0
  /\ eng = [i \in Inst |-> NoEngine]
  /\ dirs = {}
  /\ files = <<>>
  /\ pc = "idle"
  /\ cur = 0
  /\ xq = <<>>
  /\ ti = 0
  /\ qi = 0
  /\ tj = 0
  /\ test_grad = None
  /\ attribution = <<>>
  /\ outcome = "none"
  /\ nForward = [i \in Inst |-> 0]
  /\ nCompute = [i \in Inst |-> 0]
  /\ nTestGrad = 0
  /\ reads = 0
  /\ readLog = {}

Init ==
  /\ EngineInit
  /\ hook = HookInit0
  /\ graph = NoGraphEngine
  /\ sx = NoCall
  /\ fn = NoFn

\* one engine instance, every configuration
Next ==
  \/ (ConstructTracIn({1}, {"d1"}, CkptLists) /\ UNCHANGED <<hook, graph, sx, fn>>)
  \/ (ConstructInfluenceFunctions({1}, {"d1"}) /\ UNCHANGED <<hook, graph, sx, fn>>)
  \/ ((\E x \in TestBatches : Forward(1, x, MaxQueries)) /\ UNCHANGED <<hook, graph, sx, fn>>)
  \/ (TracInTrainStep /\ UNCHANGED <<hook, graph, sx, fn>>)
  \/ (InfluenceTrainStep /\ UNCHANGED <<hook, graph, sx, fn>>)
  \/ (PrecomputeDone /\ UNCHANGED <<hook, graph, sx, fn>>)
  \/ (TracInTestGrad /\ UNCHANGED <<hook, graph, sx, fn>>)
  \/ (InfluenceTestGrad /\ UNCHANGED <<hook, graph, sx, fn>>)
  \/ (ReadStep /\ UNCHANGED <<hook, graph, sx, fn>>)
  \/ (Return /\ UNCHANGED <<hook, graph, sx, fn>>)
  \/ (ChangeParams /\ UNCHANGED <<hook, graph, sx, fn>>)

Spec == Init /\ [][Next]_vars

\* two engine instances of one type, which may share their save_dir; each has
\* one checkpoint and is queried on one test example
SharedCkptLists == {<<CkptA>>, <<CkptB>>}
SharedBatches == {<<Example1>>}

SharedNext ==
  \/ (ConstructTracIn(Inst, SaveDirs, SharedCkptLists) /\ UNCHANGED <<hook, graph, sx, fn>>)
  \/ (ConstructInfluenceFunctions(Inst, SaveDirs) /\ UNCHANGED <<hook, graph, sx, fn>>)
  \/ ((\E i \in Inst, x \in SharedBatches : Forward(i, x, MaxSharedQueries))
        /\ UNCHANGED <<hook, graph, sx, fn>>)
  \/ (TracInTrainStep /\ UNCHANGED <<hook, graph, sx, fn>>)
  \/ (InfluenceTrainStep /\ UNCHANGED <<hook, graph, sx, fn>>)
  \/ (PrecomputeDone /\ UNCHANGED <<hook, graph, sx, fn>>)
  \/ (TracInTestGrad /\ UNCHANGED <<hook, graph, sx, fn>>)
  \/ (InfluenceTestGrad /\ UNCHANGED <<hook, graph, sx, fn>>)
  \/ (ReadStep /\ UNCHANGED <<hook, graph, sx, fn>>)
  \/ (Return /\ UNCHANGED <<hook, graph, sx, fn>>)

SharedSpec == Init /\ [][SharedNext]_vars

\* ======================================================================
\* Claims on the cached engines (specification Spec)
\* ======================================================================

\* a checkpoint that holds every parameter of the model
Complete(path) == DOMAIN load_model_dict(path) = Keys

\* sum over the checkpoints k of <test gradient at k, training gradient at k>
RECURSIVE SumOfDots(_, _, _)
SumOfDots(checkpoints, test_ex, train_ex) ==
  IF checkpoints = <<>> THEN 0
  ELSE LET th == load_state_dict(Theta0, load_model_dict(Head(checkpoints)))
       IN  Dot(direct_sum(LastLayerGrads(th, test_ex)),
               direct_sum(LastLayerGrads(th, train_ex)))
           + SumOfDots(Tail(checkpoints), test_ex, train_ex)

\* C1: every entry attribution[i,j] of a TracIn query equals the sum over the
\* checkpoints k of the dot product of the test-loss gradient at checkpoint k
\* with the training-loss gradient at checkpoint k.  (Stated for lists of
\* complete checkpoints, where the gradient at checkpoint k is the gradient at
\* that checkpoint's parameters.)
C1_AttributionIsSumOfDots ==
  (/\ outcome = "ok"
   /\ eng[cur].kind = "tracin"
   /\ \A k \in 1..Len(eng[cur].checkpoints) : Complete(eng[cur].checkpoints[k]))
  => \A i \in 1..Len(xq) : \A j \in 1..eng[cur].n :
       attribution[i][j] = <<SumOfDots(eng[cur].checkpoints, xq[i], X_train(cur)[j]), 1>>

\* C2: a query never computes its attribution from a cache entry that was
\* computed with parameters the model no longer has.  (Stated for
\* InfluenceFunctions, which never changes the parameters itself.)
C2_NoStaleCacheRead ==
  (cur # 0 /\ eng[cur].kind = "if") => \A r \in readLog : r.fresh

\* C3 as stated: over any sequence of queries on one TracIn instance,
\* compute_train_grads runs exactly once, during the first query.
C3_ComputeTrainGradsExactlyOnce ==
  \A i \in Inst :
    (eng[i].kind = "tracin" /\ nForward[i] >= 1) => nCompute[i] = 1

\* C3 amended: on a TracIn instance compute_train_grads is run by every query
\* issued while train_grads is False (the first query, and every later one as
\* long as each earlier run raised), before any cache file is read in that
\* query; the query loop runs only with train_grads set, and once it is set
\* compute_train_grads never runs again.  Every query that returns has computed
\* one test gradient per test example.
C3_ComputeTrainGradsUntilDone ==
  /\ [](\A i \in Inst : eng[i].kind = "tracin" =>
          /\ ~eng[i].train_grads => nCompute[i] = nForward[i]
          /\ eng[i].train_grads => nCompute[i] >= 1
          /\ (pc = "precompute" /\ cur = i) => (reads = 0 /\ ~eng[i].train_grads)
          /\ (pc = "query" /\ cur = i) => eng[i].train_grads
          /\ (outcome = "ok" /\ cur = i) => nTestGrad = Len(xq))
  /\ [][\A i \in Inst : (eng[i].kind = "tracin" /\ eng[i].train_grads)
                          => nCompute'[i] = nCompute[i]]_vars

\* C3 witness: a second query on a TracIn instance returned, served from the
\* cache written during the first
C3_Witness ==
  /\ eng[1].kind = "tracin"
  /\ nForward[1] = 2
  /\ nCompute[1] = 1
  /\ outcome = "ok"
  /\ reads > 0
  /\ nTestGrad = 2

\* C4 as stated: evaluate_ihvp is triggered by the first call of forward and
\* by no later call on the same instance.
C4_EvaluateIhvpFirstCallOnly ==
  \A i \in Inst : eng[i].kind = "if" => nCompute[i] <= 1

\* the cache files instance i wrote
Written(i) == {p \in DOMAIN files : files[p].by = i}

\* C4 amended: constructing an InfluenceFunctions engine computes nothing;
\* evaluate_ihvp is triggered by every call of forward made while ihvp is False
\* (the first call, and every later one as long as each earlier run raised),
\* the query loop runs only with ihvp set, and no call of forward made after a
\* run has completed triggers it again.
C4_EvaluateIhvpUntilDone ==
  /\ [](\A i \in Inst : eng[i].kind = "if" =>
          /\ nForward[i] = 0 => (nCompute[i] = 0 /\ Written(i) = {} /\ ~eng[i].ihvp)
          /\ ~eng[i].ihvp => nCompute[i] = nForward[i]
          /\ eng[i].ihvp => nCompute[i] >= 1
          /\ (pc = "query" /\ cur = i) => eng[i].ihvp)
  /\ [][\A i \in Inst : (eng[i].kind = "if" /\ eng[i].ihvp)
                          => nCompute'[i] = nCompute[i]]_vars

\* C4 witness: a second call of forward on an InfluenceFunctions instance
\* returned without a second evaluate_ihvp
C4_Witness ==
  /\ eng[1].kind = "if"
  /\ eng[1].n > 0
  /\ nForward[1] = 2
  /\ nCompute[1] = 1
  /\ outcome = "ok"

\* C6 as stated: one call of forward reads exactly len(X_train) cache files,
\* whatever the number of test examples.
C6_ReadsLenXTrain ==
  outcome = "ok" => reads = eng[cur].n

\* C6 amended: a call of forward that returns has read exactly
\* len(x) * len(X_train) cache files, one per training example for each test
\* example of the query.
C6_ReadsPerTestExample ==
  /\ outcome = "ok" => reads = Len(xq) * eng[cur].n
  /\ (pc = "query" /\ qi <= Len(xq)) =>
       reads = (qi - 1) * eng[cur].n + (IF tj = 0 THEN 0 ELSE tj - 1)

\* C6 witness: a query of two test examples on two training examples returned
C6_Witness ==
  /\ outcome = "ok"
  /\ Len(xq) = 2
  /\ eng[cur].n = 2
  /\ reads = 4

\* C7 (specification SharedSpec): when two instances of one engine type have
\* the same save_dir and each has run its precomputation, every query reads
\* only values that the querying instance computed itself: each file it reads
\* was written by it, or at least holds the value of its own precomputation.
C7_ReadsOwnFiles ==
  (/\ cur # 0
   /\ \A i \in Inst : eng[i].kind # "none" /\ Precomputed(i)
   /\ eng[1].save_dir = eng[2].save_dir)
  => \A r \in readLog : r.by = cur \/ r.fresh

\* ======================================================================
\* The graph engines GraphTracIn and GraphInfluenceFunctions
\* ======================================================================
\* `graph` holds one graph engine: its data_train loader (n graphs of the
\* dataset, served in `order` in batches of batch_size), its flag and cache
\* files, and the running forward call.  A cache file is [val, den, src], src
\* the dataset indices of the graphs the value was computed from.


\* the orders in which a loader can serve n graphs
Orders(n) ==
  {o \in [1..n -> 1..n] : \A a, b \in 1..n : o[a] = o[b] => a = b}

\* len(data_train): the number of batches of the loader
NumBatches(g) == (g.n + g.batch_size - 1) \div g.batch_size

\* the dataset indices (1-based) of the graphs of batch idx (0-based)
BatchIndices(g, idx) ==
  LET lo == idx * g.batch_size + 1
      hi == IF lo + g.batch_size - 1 < g.n THEN lo + g.batch_size - 1 ELSE g.n
  IN  [k \in 1..(hi - lo + 1) |-> g.order[lo + k - 1]]

\* the graphs of a batch
Batch(indices) == [k \in 1..Len(indices) |-> TrainPool[indices[k]]]

\* the gradient of the loss of a batch of graphs (the sum of its graphs' losses)
RECURSIVE BatchGrad(_, _)
BatchGrad(th, batch) ==
  IF batch = <<>> THEN <<0, 0>>
  ELSE VAdd(direct_sum(LastLayerGrads(th, Head(batch))), BatchGrad(th, Tail(batch)))

\* the checkpoint loop of GraphTracIn: torch.load(checkpoint) is handed to
\* load_state_dict as it is
RECURSIVE GraphCheckpointLoop(_, _, _, _)
GraphCheckpointLoop(th, checkpoints, batch, grad) ==
  IF checkpoints = <<>> THEN [grad |-> grad, th |-> th]
  ELSE LET th1 == load_state_dict(th, TorchLoadCkpt(Head(checkpoints)))
           g == BatchGrad(th1, batch)
       IN  GraphCheckpointLoop(th1, Tail(checkpoints), batch,
                               IF grad # None THEN VAdd(grad, g) ELSE g)

\* GraphTracIn.__init__ / GraphInfluenceFunctions.__init__
GraphConstruct(kind, n, bs, order, ckpts, depth, ll) ==
  /\ graph.kind = "none"
  /\ graph' = [NoGraphEngine EXCEPT !.kind = kind, !.n = n, !.batch_size = bs,
                                    !.order = order, !.checkpoints = ckpts,
                                    !.recursion_depth = depth, !.loader_len = ll]
  /\ UNCHANGED theta

ConstructGraphTracIn ==
  \E n \in 0..MaxTrain, bs \in 1..MaxBatch, ckpts \in SharedCkptLists :
    \E order \in Orders(n) : GraphConstruct("tracin", n, bs, order, ckpts, 0, 0)

ConstructGraphInfluenceFunctions ==
  \E n \in 0..MaxTrain, bs \in 1..MaxBatch, depth \in 0..MaxDepth, ll \in 0..MaxDepth :
    \E order \in Orders(n) : GraphConstruct("if", n, bs, order, <<>>, depth, ll)

\* GraphTracIn.forward / GraphInfluenceFunctions.forward on one test graph,
\* first lines: precompute when the flag is False
GraphForward(data) ==
  /\ graph.kind # "none"
  /\ graph.pc = "idle"
  /\ graph.nForward < MaxGraphQueries
  /\ graph' = [graph EXCEPT !.pc = IF graph.flag THEN "query" ELSE "precompute",
                            !.idx = 0, !.data = data, !.test_grad = None,
                            !.train_idx = 0, !.outcome = "running",
                            !.attribution = [c \in 1..graph.n |-> <<0, 1>>],
                            !.nForward = @ + 1]
  /\ UNCHANGED theta

\* one iteration of "for idx, data in enumerate(self.data_train)" of
\* GraphTracIn.compute_train_grads: the file is named after the batch counter
GraphTracInTrainStep ==
  /\ graph.kind = "tracin"
  /\ graph.pc = "precompute"
  /\ graph.idx < NumBatches(graph)
  /\ LET indices == BatchIndices(graph, graph.idx)
         loop == GraphCheckpointLoop(theta, graph.checkpoints, Batch(indices), None)
     IN  IF loop.grad = None
         THEN /\ graph' = [graph EXCEPT !.pc = "idle", !.outcome = "raised"]
              /\ UNCHANGED theta
         ELSE /\ theta' = ModelAfterLoop(theta, loop)
              /\ graph' = [graph EXCEPT
                             !.files = Save(@, graph.idx,
                                            [val |-> loop.grad, den |-> 1,
                                             src |-> {indices[k] : k \in 1..Len(indices)}]),
                             !.idx = @ + 1]

\* one iteration of the loop of GraphInfluenceFunctions.evaluate_ihvp
GraphInfluenceTrainStep ==
  /\ graph.kind = "if"
  /\ graph.pc = "precompute"
  /\ graph.idx < NumBatches(graph)
  /\ UNCHANGED theta
  /\ LET indices == BatchIndices(graph, graph.idx)
         grad == BatchGrad(theta, Batch(indices))
     IN  IF graph.loader_len < graph.recursion_depth
         THEN graph' = [graph EXCEPT !.pc = "idle", !.outcome = "raised"]
         ELSE \E batches \in [1..graph.recursion_depth -> BatchPool] :
                graph' = [graph EXCEPT
                            !.files = Save(@, graph.idx,
                                           [val |-> IhvpLoop(theta, grad, grad, batches, 0),
                                            den |-> Pow(Scale, graph.recursion_depth),
                                            src |-> {indices[k] : k \in 1..Len(indices)}]),
                            !.idx = @ + 1]

\* "self.train_grads = True" / "self.ihvp = True"
GraphPrecomputeDone ==
  /\ graph.pc = "precompute"
  /\ graph.idx >= NumBatches(graph)
  /\ graph' = [graph EXCEPT !.flag = TRUE, !.pc = "query"]
  /\ UNCHANGED theta

\* the test gradient of the query graph
GraphTestGrad ==
  /\ graph.pc = "query"
  /\ graph.test_grad = None
  /\ IF graph.kind = "tracin"
     THEN LET loop == GraphCheckpointLoop(theta, graph.checkpoints, <<graph.data>>, None)
          IN  IF loop.grad = None
              THEN /\ graph' = [graph EXCEPT !.pc = "idle", !.outcome = "raised"]
                   /\ UNCHANGED theta
              ELSE /\ graph' = [graph EXCEPT !.test_grad = loop.grad]
                   /\ theta' = ModelAfterLoop(theta, loop)
     ELSE /\ graph' = [graph EXCEPT
                         !.test_grad = direct_sum(LastLayerGrads(theta, graph.data))]
          /\ UNCHANGED theta

\* one iteration of "for train_idx in range(len(self.data_train.dataset))":
\* torch.load of the file of train_idx, which raises when there is none
GraphReadStep ==
  /\ graph.pc = "query"
  /\ graph.test_grad # None
  /\ graph.train_idx < graph.n
  /\ UNCHANGED theta
  /\ IF graph.train_idx \notin DOMAIN graph.files
     THEN graph' = [graph EXCEPT !.pc = "idle", !.outcome = "raised"]
     ELSE graph' = [graph EXCEPT
                      !.attribution[graph.train_idx + 1] =
                         Entry(graph.files[graph.train_idx], graph.test_grad),
                      !.train_idx = @ + 1]

\* return attribution
GraphReturn ==
  /\ graph.pc = "query"
  /\ graph.test_grad # None
  /\ graph.train_idx >= graph.n
  /\ graph' = [graph EXCEPT !.pc = "idle", !.outcome = "ok"]
  /\ UNCHANGED theta

graphFrame == <<eng, dirs, files, pc, cur, xq, ti, qi, tj, test_grad, attribution,
                outcome, nForward, nCompute, nTestGrad, reads, readLog, hook, sx, fn>>

GraphNext ==
  \/ (ConstructGraphTracIn /\ UNCHANGED graphFrame)
  \/ (ConstructGraphInfluenceFunctions /\ UNCHANGED graphFrame)
  \/ ((\E data \in TestPool : GraphForward(data)) /\ UNCHANGED graphFrame)
  \/ (GraphTracInTrainStep /\ UNCHANGED graphFrame)
  \/ (GraphInfluenceTrainStep /\ UNCHANGED graphFrame)
  \/ (GraphPrecomputeDone /\ UNCHANGED graphFrame)
  \/ (GraphTestGrad /\ UNCHANGED graphFrame)
  \/ (GraphReadStep /\ UNCHANGED graphFrame)
  \/ (GraphReturn /\ UNCHANGED graphFrame)

GraphSpec == Init /\ [][GraphNext]_vars

\* C5 (specification GraphSpec): once compute_train_grads / evaluate_ihvp of a
\* graph engine has completed, a cache file exists for every training index
\* 0..len(data_train.dataset)-1 and the file of index j was computed from the
\* j-th graph of the dataset alone, whatever the batch size and the order of
\* the loader.
C5_CacheKeyedByTrainingIndex ==
  (graph.kind # "none" /\ graph.flag) =>
    \A j \in 0..(graph.n - 1) :
      j \in DOMAIN graph.files /\ graph.files[j].src = {j + 1}

\* ======================================================================
\* Forward-hook capture: SimplEx and RepresentationSimilarity
\* ======================================================================
\* `hook` holds the explainers built on one layer of the model (per explainer:
\* its class, H, H_train and whether remove_hook was called), the hooks
\* registered on the layer, the input and the layer output of the most recent
\* forward pass, and the arguments of the last attribution computed.

HookKinds == {"SimplEx", "RepresentationSimilarity"}
HookInputs == {1, 2}
HookBatches == SeqsUpTo(HookInputs, MaxHookBatch)
HookTrain == <<1, 2>>


\* the activations of the hooked layer for a batch: per example two channels
\* of two positions
LayerData(th, batch) ==
  [k \in 1..Len(batch) |-> << <<th.body * batch[k], batch[k]>>, <<batch[k] + 1, 0>> >>]

\* the output object of the hooked layer, <<class, value>>: a plain tensor, or
\* a GeometricTensor that holds the tensor in its field "tensor"
LayerOut(th, geometric, batch) ==
  IF geometric THEN <<"GeometricTensor", [tensor |-> LayerData(th, batch)]>>
               ELSE <<"Tensor", LayerData(th, batch)>>

\* output.flatten(start_dim=1): one vector per example
Flatten(tensor) == [k \in 1..Len(tensor) |-> direct_sum(tensor[k])]

\* "if isinstance(output, GeometricTensor): output = output.tensor"
Unwrap(output) ==
  IF output[1] = "GeometricTensor" THEN output[2].tensor ELSE output[2]

\* mutant: the hook keeps the first capture
hookKeepFirst(H, output) ==
  IF H = <<>> THEN Flatten(Unwrap(output)) ELSE H

\* the hook body: unwrap a GeometricTensor, flatten, detach; the new value of
\* self.H
hookCapture(H, output) == Flatten(Unwrap(output))

\* mutant: the hook writes into the storage that H_train shares with H
hookRunAliased(self, output) ==
  [self EXCEPT !.H = hookCapture(@, output),
               !.H_train = IF self.H_train = <<>> THEN <<>> ELSE hookCapture(@, output)]

\* the hook of one explainer runs: "self.H = ..." rebinds the attribute H and
\* touches no other attribute
hookRun(self, output) == [self EXCEPT !.H = hookCapture(@, output)]

\* one forward pass of the model on a batch: the layer computes its output and
\* every registered hook runs on it; the hooks return nothing, so the output
\* goes on unchanged
Pass(h, batch) ==
  LET output == LayerOut(theta, h.geometric, batch)
  IN  [h EXCEPT !.expl = [e \in Expl |->
                            IF e \in h.hooks
                            THEN hookRun(h.expl[e], output)
                            ELSE h.expl[e]],
                !.lastIn = batch,
                !.lastOut = output,
                !.nPass = @ + 1]

\* SimplEx.__init__ / RepresentationSimilarity.__init__: register the hook, run
\* the model on X_train, clone the capture
ConstructExplainer(e, kind) ==
  /\ hook.expl[e].kind = "none"
  /\ hook.nPass < MaxPasses
  /\ LET h0 == [hook EXCEPT !.expl[e] = [NoExplainer EXCEPT !.kind = kind],
                            !.hooks = @ \cup {e}]
         h1 == Pass(h0, HookTrain)
     IN  hook' = [h1 EXCEPT !.expl[e].H_train = h1.expl[e].H]

\* mutant: remove_hook leaves the hook registered
RemoveHandleNoop(hooks, e) == hooks

\* mutant: the handles of the other explainers are removed
removeOtherHandles(hooks, e) == hooks \cap {e}

\* self.handle.remove()
RemoveHandle(hooks, e) == hooks \ {e}

\* remove_hook()
remove_hook(e) ==
  /\ hook.expl[e].kind # "none"
  /\ hook' = [hook EXCEPT !.hooks = RemoveHandle(@, e), !.expl[e].removed = TRUE]

\* a forward pass of the model issued by any other caller
ModelForward(batch) ==
  /\ hook.nPass < MaxPasses
  /\ hook' = Pass(hook, batch)

\* SimplEx.forward / RepresentationSimilarity.forward: run the model on x, then
\* compute the attribution from self.H and self.H_train
ExplainerForward(e, x) ==
  /\ hook.expl[e].kind # "none"
  /\ hook.nPass < MaxPasses
  /\ LET h1 == Pass(hook, x)
     IN  hook' = [h1 EXCEPT !.result = [e |-> e, H |-> h1.expl[e].H,
                                        H_train |-> h1.expl[e].H_train]]

hookFrame == <<theta, eng, dirs, files, pc, cur, xq, ti, qi, tj, test_grad, attribution,
               outcome, nForward, nCompute, nTestGrad, reads, readLog, graph, sx, fn>>

HookInit ==
  /\ EngineInit
  /\ graph = NoGraphEngine
  /\ sx = NoCall
  /\ fn = NoFn
  /\ \E g \in BOOLEAN : hook = [HookInit0 EXCEPT !.geometric = g]

HookNext ==
  \/ ((\E e \in Expl, kind \in HookKinds : ConstructExplainer(e, kind)) /\ UNCHANGED hookFrame)
  \/ ((\E e \in Expl : remove_hook(e)) /\ UNCHANGED hookFrame)
  \/ ((\E batch \in HookBatches : ModelForward(batch)) /\ UNCHANGED hookFrame)
  \/ ((\E e \in Expl, x \in HookBatches : ExplainerForward(e, x)) /\ UNCHANGED hookFrame)

HookSpec == HookInit /\ [][HookNext]_vars

\* element (example k, channel c, position l) of the layer output of the most
\* recent forward pass
LastOutAt(k, c, l) == LayerData(theta, hook.lastIn)[k][c][l]

\* C8 (specification HookSpec): while the hook of an explainer is attached, its
\* captured activation H is the flattened output of the hooked layer for the
\* input of the most recent forward pass, whoever issued it: one row per
\* example of that input, holding the example's channels one after the other,
\* and nothing of an earlier capture.
C8_HIsLatestLayerOutput ==
  \A e \in hook.hooks :
    /\ hook.lastOut = LayerOut(theta, hook.geometric, hook.lastIn)
    /\ Len(hook.expl[e].H) = Len(hook.lastIn)
    /\ \A k \in 1..Len(hook.lastIn) :
         /\ Len(hook.expl[e].H[k]) = 4
         /\ \A c \in 1..2, l \in 1..2 :
              hook.expl[e].H[k][(c - 1) * 2 + l] = LastOutAt(k, c, l)

\* C8 witness: an attached explainer whose capture was overwritten by a pass
\* on another input than X_train
C8_Witness ==
  /\ 1 \in hook.hooks
  /\ hook.nPass >= 2
  /\ hook.lastIn # HookTrain
  /\ hook.lastIn # <<>>
  /\ hook.expl[1].H # hook.expl[1].H_train

\* C9 (specification HookSpec): once remove_hook() was called on an explainer,
\* its hook is no longer registered on the layer, no step changes its captured
\* activation H, and the layer output of every pass is the one the model
\* computes.
C9_RemovedHookIsInert ==
  /\ [](\A e \in Expl : hook.expl[e].removed =>
          /\ e \notin hook.hooks
          /\ hook.lastOut = LayerOut(theta, hook.geometric, hook.lastIn))
  /\ [][\A e \in Expl : hook.expl[e].removed =>
          /\ hook'.expl[e].H = hook.expl[e].H
          /\ hook'.expl[e].removed]_vars

\* C9 witness: after remove_hook the model ran on another input, and the
\* explainer still holds its earlier capture
C9_Witness ==
  /\ hook.expl[1].removed
  /\ hook.lastIn # <<>>
  /\ hook.expl[1].H # Flatten(LayerData(theta, hook.lastIn))

\* ======================================================================
\* SimplEx.compute_weights / GraphSimplEx.compute_weights
\* ======================================================================
\* `sx` holds one call compute_weights(H, H_train, n_epoch): its arguments, the
\* epoch counter, the preweights and the returned weights.  The arithmetic is
\* exact: a preweight is an integer number of optimizer steps, exp is the
\* power of two, and a weight is a fraction <<numerator, denominator>>.

ActVecs == {<<0, 1>>, <<2, 0>>, <<1, 3>>}
ActMatrices == SeqsUpTo(ActVecs, MaxRows)

RECURSIVE MinOf(_, _)
MinOf(row, n) ==
  IF n = 1 THEN row[1]
  ELSE LET m == MinOf(row, n - 1) IN IF row[n] < m THEN row[n] ELSE m

\* softmax of one vector: exp(p_j) / sum_j exp(p_j), the exponents shifted by
\* the smallest one; the softmax of an empty vector is empty
SoftmaxVec(row) ==
  IF Len(row) = 0 THEN <<>>
  ELSE LET e == [j \in 1..Len(row) |-> Pow(2, row[j] - MinOf(row, Len(row)))]
           total == SumTo(e, Len(row))
       IN  [j \in 1..Len(row) |-> <<e[j], total>>]

\* mutant: softmax(preweights, dim=0), over the test examples
softmaxDim0(pre) ==
  IF Len(pre) = 0 THEN <<>>
  ELSE LET cols == Len(pre[1])
           col == [j \in 1..cols |-> SoftmaxVec([i \in 1..Len(pre) |-> pre[i][j]])]
       IN  [i \in 1..Len(pre) |-> [j \in 1..cols |-> col[j][i]]]

\* softmax(preweights, dim=-1): over the training examples, row by row
softmax(pre) == [i \in 1..Len(pre) |-> SoftmaxVec(pre[i])]

Sign(v) == IF v > 0 THEN 1 ELSE IF v < 0 THEN -1 ELSE 0

\* the sign of d error / d preweights[i][j] for the weights w = softmax(pre),
\* error = sum((w @ H_train - H)^2):  with w[i][j] = n_j / D and
\* A_k = sum_j n_j * H_train[j][k], the derivative is a positive multiple of
\* sum_k (A_k - D*H[i][k]) * (D*H_train[j][k] - A_k)
GradSign(w, H, H_train, i, j) ==
  LET cols == Len(H_train)
      D == w[i][1][2]
      A == [k \in 1..Len(H[i]) |->
              SumTo([c \in 1..cols |-> w[i][c][1] * H_train[c][k]], cols)]
  IN  Sign(SumTo([k \in 1..Len(H[i]) |->
                    (A[k] - D * H[i][k]) * (D * H_train[j][k] - A[k])], Len(H[i])))

\* optimizer.step(): each preweight moves one step against its gradient
AdamStep(pre, H, H_train) ==
  LET w == softmax(pre)
  IN  [i \in 1..Len(pre) |-> [j \in 1..Len(pre[i]) |->
         pre[i][j] - GradSign(w, H, H_train, i, j)]]

\* torch.zeros((len(H), len(H_train)))
ZeroPreweights(H, H_train) == [i \in 1..Len(H) |-> [j \in 1..Len(H_train) |-> 0]]

\* one iteration of "for epoch in range(n_epoch)"
EpochStep ==
  /\ sx.pc = "loop"
  /\ sx.epoch < sx.n_epoch
  /\ sx' = [sx EXCEPT !.preweights = AdamStep(@, sx.H, sx.H_train),
                      !.epoch = @ + 1]

\* return torch.softmax(preweights, dim=-1)
ReturnWeights ==
  /\ sx.pc = "loop"
  /\ sx.epoch >= sx.n_epoch
  /\ sx' = [sx EXCEPT !.weights = softmax(sx.preweights), !.pc = "done"]

weightFrame == <<theta, eng, dirs, files, pc, cur, xq, ti, qi, tj, test_grad, attribution,
                 outcome, nForward, nCompute, nTestGrad, reads, readLog, graph, hook, fn>>

WeightInit ==
  /\ EngineInit
  /\ graph = NoGraphEngine
  /\ hook = HookInit0
  /\ fn = NoFn
  /\ \E H \in ActMatrices, H_train \in ActMatrices, n_epoch \in 0..MaxEpoch :
       sx = [H |-> H, H_train |-> H_train, n_epoch |-> n_epoch, epoch |-> 0,
             preweights |-> ZeroPreweights(H, H_train), weights |-> <<>>, pc |-> "loop"]

WeightNext ==
  \/ (EpochStep /\ UNCHANGED weightFrame)
  \/ (ReturnWeights /\ UNCHANGED weightFrame)

WeightSpec == WeightInit /\ [][WeightNext]_vars

\* the sum of a vector of fractions, as a fraction
RECURSIVE FracSum(_, _)
FracSum(row, n) ==
  IF n = 0 THEN <<0, 1>>
  ELSE LET rest == FracSum(row, n - 1)
       IN  <<rest[1] * row[n][2] + row[n][1] * rest[2], rest[2] * row[n][2]>>

\* C10 as stated: for every test example the returned weights are non-negative
\* and sum to 1 over the training examples, for every n_epoch and every pair
\* of activation matrices.
C10_WeightsOnSimplex ==
  sx.pc = "done" =>
    \A i \in 1..Len(sx.H) :
      /\ \A j \in 1..Len(sx.weights[i]) :
           sx.weights[i][j][1] >= 0 /\ sx.weights[i][j][2] > 0
      /\ LET total == FracSum(sx.weights[i], Len(sx.weights[i]))
         IN  total[1] = total[2]

\* C10 amended: the returned matrix has one row per test example and one
\* column per training example, every weight is non-negative, and each row
\* sums to 1 whenever there is at least one training example (with an empty
\* H_train the row is empty and sums to 0), for every n_epoch including 0.
C10_WeightsOnSimplexNonEmpty ==
  sx.pc = "done" =>
    /\ Len(sx.weights) = Len(sx.H)
    /\ \A i \in 1..Len(sx.H) :
         /\ Len(sx.weights[i]) = Len(sx.H_train)
         /\ \A j \in 1..Len(sx.weights[i]) :
              sx.weights[i][j][1] >= 0 /\ sx.weights[i][j][2] > 0
         /\ LET total == FracSum(sx.weights[i], Len(sx.weights[i]))
            IN  IF Len(sx.H_train) >= 1 THEN total[1] = total[2] ELSE total[1] = 0

\* C10 witness: weights returned after optimizer steps that moved the
\* preweights of two training examples apart
C10_Witness ==
  /\ sx.pc = "done"
  /\ sx.n_epoch >= 1
  /\ Len(sx.H) >= 1
  /\ Len(sx.H_train) = 2
  /\ sx.weights[1][1] # sx.weights[1][2]

\* ======================================================================
\* hessian_vector_product as a function of its arguments (HvpSpec)
\* ======================================================================
\* `fn` holds the arguments and the result of the last call, the number of
\* calls, and the accumulated gradient (.grad) of every parameter of the
\* model.  A loss is <<"batch", batch>>, the loss of the model on a batch, or
\* <<"quad", A>>, the loss 0.5 * p^T A p of the last layer's parameters p.

SymMatrices == {<< <<a, b>>, <<b, c>> >> : a \in {1, 2}, b \in {0, 1}, c \in {0, 3}}
HvpLosses == {<<"batch", b>> : b \in BatchPool} \cup {<<"quad", A>> : A \in SymMatrices}
HvpVectors == {<<u, w>> : u \in {-1, 2}, w \in {0, 2}}

\* mutant: the accumulated gradients are left as they are
zeroGradSkipped(grads) == grads

\* self.model.zero_grad()
zero_grad(grads) == [k \in DOMAIN grads |-> 0]

\* loss.backward() of a caller on one example: every parameter's .grad grows
\* by the derivative of the loss
backward(th, grads, ex) ==
  LET r == ModelOut(th, ex[1]) - ex[2]
  IN  [k \in DOMAIN grads |->
         grads[k] + (CASE k = "w" -> r * Hidden(th, ex[1])
                       [] k = "b" -> r
                       [] k = "body" -> r * th.w * ex[1])]

\* a caller accumulates gradients on the model between two calls
CallerBackward ==
  /\ fn.nBackward < MaxBackward
  /\ \E ex \in TestPool :
       fn' = [fn EXCEPT !.grads = backward(theta, @, ex), !.nBackward = @ + 1]

\* one call hessian_vector_product(loss, v)
HvpCall ==
  /\ fn.calls < MaxHvpCalls
  /\ \E loss \in HvpLosses, v \in HvpVectors :
       fn' = [fn EXCEPT !.loss = loss, !.v = v, !.th = theta, !.p = LastLayer(theta),
                        !.result = HVP_(loss, theta, LastLayer(theta), v),
                        !.grads = zero_grad(@),
                        !.calls = @ + 1]

hvpFrame == <<eng, dirs, files, pc, cur, xq, ti, qi, tj, test_grad, attribution,
              outcome, nForward, nCompute, nTestGrad, reads, readLog, graph, hook, sx>>

HvpInit ==
  /\ EngineInit
  /\ graph = NoGraphEngine
  /\ hook = HookInit0
  /\ sx = NoCall
  /\ fn = [op |-> "hvp", loss |-> <<"batch", <<>>>>, v |-> <<0, 0>>, th |-> Theta0,
           p |-> <<0, 0>>,
           result |-> <<0, 0>>, grads |-> [k \in Keys |-> 0], calls |-> 0,
           nBackward |-> 0]

HvpNext ==
  \/ (HvpCall /\ UNCHANGED theta /\ UNCHANGED hvpFrame)
  \/ (CallerBackward /\ UNCHANGED theta /\ UNCHANGED hvpFrame)
  \/ (ChangeParams /\ UNCHANGED <<hook, graph, sx, fn>>)

HvpSpec == HvpInit /\ [][HvpNext]_vars

\* the Hessian of the loss at p, entry by entry, as the second difference of
\* twice the loss
Hessian(loss, th, p) ==
  [j \in 1..Len(p) |-> [k \in 1..Len(p) |->
     (  TwiceLossOf(loss, th, Shift(Shift(p, j, 1), k, 1))
      - TwiceLossOf(loss, th, Shift(Shift(p, j, 1), k, -1))
      - TwiceLossOf(loss, th, Shift(Shift(p, j, -1), k, 1))
      + TwiceLossOf(loss, th, Shift(Shift(p, j, -1), k, -1))) \div 8]]

\* C11: hessian_vector_product(loss, v) is the Hessian of the loss with respect
\* to the last layer's parameters times v; for the loss 0.5 * p^T A p with
\* symmetric A it is A v.
C11_HvpIsHessianTimesV ==
  fn.calls > 0 =>
    /\ fn.result = MatVec(Hessian(fn.loss, fn.th, fn.p), fn.v)
    /\ fn.loss[1] = "quad" => fn.result = MatVec(fn.loss[2], fn.v)

\* C11 witness: a call on a quadratic loss with a non-diagonal matrix has
\* returned a non-zero product
C11_Witness ==
  /\ fn.calls > 0
  /\ fn.result # <<0, 0>>
  /\ fn.result[1] # fn.result[2]
  /\ fn.loss[1] = "quad"
  /\ fn.loss[2][1][2] # 0

\* C12: when a call of hessian_vector_product returns, no parameter of the
\* model carries an accumulated gradient, and the value returned is the one a
\* first call with the same arguments returns.
C12_NoGradLeftAfterHvp ==
  [][fn'.calls # fn.calls =>
       /\ \A k \in Keys : fn'.grads[k] = 0
       /\ fn'.result = MatVec(Hessian(fn'.loss, fn'.th, fn'.p), fn'.v)]_vars

\* C12 witness: a second call has returned after a caller had accumulated
\* gradients on the model
C12_Witness ==
  /\ fn.calls = 2
  /\ fn.nBackward > 0
  /\ \A k \in Keys : fn.grads[k] = 0

\* ======================================================================
\* The recursion of evaluate_ihvp at depth (IhvpSpec)
\* ======================================================================
\* one InfluenceFunctions instance with at least one training example; the
\* recursion depths are those whose denominators Scale^depth, and the
\* numerators over them, stay within the integers of the model checker

IhvpDepths == {d \in 0..(MaxDepth + 1) : Pow(Scale, d) <= Scale * Scale}

IhvpNext ==
  \/ ((\E n \in 1..MaxTrain, depth \in IhvpDepths, ll \in IhvpDepths :
         Construct(1, "if", "d1", n, <<>>, depth, ll))
        /\ UNCHANGED <<hook, graph, sx, fn>>)
  \/ ((\E x \in {<<Example2>>} : Forward(1, x, 1)) /\ UNCHANGED <<hook, graph, sx, fn>>)
  \/ (InfluenceTrainStep /\ UNCHANGED <<hook, graph, sx, fn>>)
  \/ (PrecomputeDone /\ UNCHANGED <<hook, graph, sx, fn>>)
  \/ (InfluenceTestGrad /\ UNCHANGED <<hook, graph, sx, fn>>)
  \/ (ReadStep /\ UNCHANGED <<hook, graph, sx, fn>>)
  \/ (Return /\ UNCHANGED <<hook, graph, sx, fn>>)
  \/ (ChangeParams /\ UNCHANGED <<hook, graph, sx, fn>>)

IhvpSpec == Init /\ [][IhvpNext]_vars

\* the value after t steps of  ihvp <- grad + (1-damp)*ihvp - H_t ihvp / scale
\* started at grad, as a numerator over Scale^t, H_t the Hessian of the loss
\* on the t-th mini-batch drawn
RECURSIVE RecursionValue(_, _, _, _)
RecursionValue(th, grad, batches, t) ==
  IF t = 0 THEN grad
  ELSE LET prev == RecursionValue(th, grad, batches, t - 1)
           H == Hessian(<<"batch", batches[t]>>, th, LastLayer(th))
       IN  [k \in 1..Len(grad) |->
              Pow(Scale, t) * grad[k] + (Scale - DampScaled) * prev[k] - MatVec(H, prev)[k]]

\* C13: for every training index the value stored in train_ihvp{idx} is the
\* recursion started at the gradient of that example's loss and applied
\* exactly recursion_depth times, one mini-batch per step; with depth 0 it is
\* the gradient.
C13_StoredIhvpIsRecursion ==
  \A path \in DOMAIN files :
    LET f == files[path]
        depth == eng[f.by].recursion_depth
        grad == direct_sum(LastLayerGrads(f.th, X_train(f.by)[path[4] + 1]))
    IN  /\ Len(f.batches) = depth
        /\ f.den = Pow(Scale, depth)
        /\ f.val = RecursionValue(f.th, grad, f.batches, depth)
        /\ depth = 0 => (f.val = grad /\ f.den = 1)

\* C13 witness: a value stored after two steps on two different mini-batches
C13_Witness ==
  \E path \in DOMAIN files :
    /\ Len(files[path].batches) = 2
    /\ files[path].batches[1] # files[path].batches[2]
    /\ files[path].val # <<0, 0>>

\* ======================================================================
\* TracIn with one checkpoint (specification Spec)
\* ======================================================================

LoadCall ==
  /\ fn.calls < MaxLoads
  /\ \E path \in LoadPaths :
       /\ fn' = [fn EXCEPT !.path = path, !.result = load_model_dict(path),
                           !.log = Append(@, path), !.calls = @ + 1]
       /\ theta' = load_state_dict(theta, load_model_dict(path))

LoadInit ==
  /\ EngineInit
  /\ graph = NoGraphEngine
  /\ hook = HookInit0
  /\ sx = NoCall
  /\ fn = [op |-> "load", path |-> <<>>, result |-> <<>>, log |-> <<>>, calls |-> 0]

LoadNext ==
  \/ (LoadCall /\ UNCHANGED hvpFrame)
  \/ (ChangeParams /\ UNCHANGED <<hook, graph, sx, fn>>)

LoadSpec == LoadInit /\ [][LoadNext]_vars

\* C15: load_model_dict returns the deserialized mapping itself for a file
\* whose name does not contain ".ckpt", and the mapping stored under
\* "state_dict" for a file whose name contains ".ckpt"; for a plain file of
\* parameters and for a harness checkpoint named with ".ckpt" the result is
\* the parameter mapping.
C15_LoadModelDictByName ==
  fn.calls > 0 =>
    LET raw == TorchLoadCkpt(fn.path)
        named == \E k \in 1..Len(fn.path) : fn.path[k] = ".ckpt"
    IN  /\ ~named => fn.result = raw
        /\ named => fn.result = raw.state_dict
        /\ (named <=> "state_dict" \in DOMAIN raw) => DOMAIN fn.result \subseteq Keys

\* C15 witness: a harness checkpoint whose name has ".ckpt" inside it, not at
\* its end, was unwrapped
C15_Witness ==
  /\ fn.calls > 0
  /\ fn.path = CkptD
  /\ fn.result = [body |-> 2, w |-> 1, b |-> 0]

\* ======================================================================
\* A cache file goes missing (MissingSpec)
\* ======================================================================
\* one engine with a list of one checkpoint, whose model nobody changes, and
\* someone who deletes cache files at any moment

RemoveFile ==
  /\ \E path \in DOMAIN files :
       files' = [q \in DOMAIN files \ {path} |-> files[q]]
  /\ UNCHANGED <<theta, eng, dirs, pc, cur, xq, ti, qi, tj, test_grad, attribution,
                 outcome, nForward, nCompute, nTestGrad, reads, readLog>>

MissingNext ==
  \/ (ConstructTracIn({1}, {"d1"}, SharedCkptLists) /\ UNCHANGED <<hook, graph, sx, fn>>)
  \/ (ConstructInfluenceFunctions({1}, {"d1"}) /\ UNCHANGED <<hook, graph, sx, fn>>)
  \/ ((\E x \in TestBatches : Forward(1, x, MaxQueries)) /\ UNCHANGED <<hook, graph, sx, fn>>)
  \/ (TracInTrainStep /\ UNCHANGED <<hook, graph, sx, fn>>)
  \/ (InfluenceTrainStep /\ UNCHANGED <<hook, graph, sx, fn>>)
  \/ (PrecomputeDone /\ UNCHANGED <<hook, graph, sx, fn>>)
  \/ (TracInTestGrad /\ UNCHANGED <<hook, graph, sx, fn>>)
  \/ (InfluenceTestGrad /\ UNCHANGED <<hook, graph, sx, fn>>)
  \/ (ReadStep /\ UNCHANGED <<hook, graph, sx, fn>>)
  \/ (Return /\ UNCHANGED <<hook, graph, sx, fn>>)
  \/ (RemoveFile /\ UNCHANGED <<hook, graph, sx, fn>>)

MissingSpec == Init /\ [][MissingNext]_vars

\* the running call is about to read a cache file that does not exist
AtMissingFile ==
  /\ pc = "query"
  /\ qi <= Len(xq)
  /\ tj >= 1
  /\ CachePath(cur, tj - 1) \notin DOMAIN files

\* C16: when the cache file of a training index is missing at the moment
\* forward reads it, the call raises: it ends there, returns no attribution
\* matrix, reads nothing more and recomputes nothing; a call that returns has
\* read every file of every test example.
C16_MissingFileRaises ==
  /\ [](outcome = "raised" => pc = "idle")
  /\ [](outcome = "ok" => reads = Len(xq) * eng[cur].n)
  /\ [][(AtMissingFile /\ files' = files)
          => /\ outcome' = "raised"
             /\ pc' = "idle"
             /\ UNCHANGED <<reads, attribution, nForward, nCompute>>]_vars
  /\ [][(outcome = "raised" /\ nForward' = nForward)
          => UNCHANGED <<outcome, pc, reads, attribution, nCompute>>]_vars

\* C16 witness: a query of an instance whose precomputation was complete has
\* raised after reading one file, the next one being missing
C16_Witness ==
  /\ outcome = "raised"
  /\ Precomputed(cur)
  /\ reads = 1
  /\ tj = 2
  /\ CachePath(cur, 1) \notin DOMAIN files

\* ======================================================================
\* Model invariance under an exact finite group (InvarianceSpec)
\* ======================================================================
\* The measurement is modelled from its contract: for each test example the
\* input is transformed by every group element, the model is run, and the
\* score is the mean over the group of the agreement between the output on
\* the original and on the transformed input.  The group is the cyclic
\* translations of a signal of GroupSize samples; a score is a fraction
\* <<numerator, denominator>>.

Signals == [1..GroupSize -> {0, 1}]
InvBatches == {b \in SeqsUpTo(Signals, MaxInvBatch) : Len(b) >= 1}
InvModels == {"sum", "constant", "first", "weighted"}
InvMetrics == {"match", "cos"}

\* enumerate(): every group element, the identity first
GroupElements == 0..(GroupSize - 1)

\* apply(g, x): the signal shifted by g samples, cyclically
Apply(g, x) == [k \in 1..GroupSize |-> x[((k - 1 + g) % GroupSize) + 1]]

\* the two logits of a toy classifier
ToyOut(model, x) ==
  CASE model = "sum" -> <<SumTo(x, GroupSize), 1>>
    [] model = "constant" -> <<1, 2>>
    [] model = "first" -> <<x[1], 1 - x[1]>>
    [] model = "weighted" -> <<x[1] + 2 * x[2], x[GroupSize] + 1>>

ArgMax(y) == IF y[1] >= y[2] THEN 1 ELSE 2

\* the agreement of two outputs: exact match of the predicted class, or the
\* cosine of the angle between them, kept exact as its signed square
Similarity(metric, y1, y2) ==
  IF metric = "match"
  THEN <<IF ArgMax(y1) = ArgMax(y2) THEN 1 ELSE 0, 1>>
  ELSE <<Sign(Dot(y1, y2)) * Dot(y1, y2) * Dot(y1, y2), Dot(y1, y1) * Dot(y2, y2)>>

RECURSIVE GCD(_, _)
GCD(a, b) == IF b = 0 THEN a ELSE GCD(b, a % b)

Abs(v) == IF v < 0 THEN -v ELSE v

\* a fraction in lowest terms
Lowest(f) == LET g == GCD(Abs(f[1]), f[2]) IN <<f[1] \div g, f[2] \div g>>

\* the sum of the first n fractions of a vector, in lowest terms
RECURSIVE FracTotal(_, _)
FracTotal(row, n) ==
  IF n = 0 THEN <<0, 1>>
  ELSE LET rest == FracTotal(row, n - 1)
           term == Lowest(row[n])
       IN  Lowest(<<rest[1] * term[2] + term[1] * rest[2], rest[2] * term[2]>>)

\* mutant: the agreements are summed, not averaged
totalNotMean(total, n) == total

\* the mean of n agreements whose sum is total
meanOver(total, n) == <<total[1], total[2] * n>>

\* the invariance score of one example
InvarianceScore(model, metric, x) ==
  LET sims == [g \in 1..GroupSize |->
                 Similarity(metric, ToyOut(model, x), ToyOut(model, Apply(g - 1, x)))]
  IN  meanOver(FracTotal(sims, GroupSize), GroupSize)

\* model_invariance_exact(model, group, loader): one score per test example
InvarianceCall ==
  /\ fn.scores = <<>>
  /\ fn' = [fn EXCEPT !.scores = [i \in 1..Len(fn.X) |->
                                    InvarianceScore(fn.model, fn.metric, fn.X[i])]]

invFrame == <<theta, eng, dirs, files, pc, cur, xq, ti, qi, tj, test_grad, attribution,
              outcome, nForward, nCompute, nTestGrad, reads, readLog, graph, hook, sx>>

InvarianceInit ==
  /\ EngineInit
  /\ graph = NoGraphEngine
  /\ hook = HookInit0
  /\ sx = NoCall
  /\ \E model \in InvModels, metric \in InvMetrics, X \in InvBatches :
       fn = [op |-> "invariance", model |-> model, metric |-> metric, X |-> X,
             scores |-> <<>>]

InvarianceNext == InvarianceCall /\ UNCHANGED invFrame

InvarianceSpec == InvarianceInit /\ [][InvarianceNext]_vars

\* the model's output is the same on x and on every transformed copy of x
OutputInvariantOn(model, x) ==
  \A g \in GroupElements : ToyOut(model, Apply(g, x)) = ToyOut(model, x)

\* C17: for a model whose output is the same on x and on every transformed
\* copy of x the invariance score of x is 1, and every score lies in the
\* range of the similarity metric: [0,1] for exact match, [-1,1] for cosine.
C17_InvariantModelScoresOne ==
  fn.scores # <<>> =>
    \A i \in 1..Len(fn.X) :
      LET s == fn.scores[i]
      IN  /\ s[2] > 0
          /\ OutputInvariantOn(fn.model, fn.X[i]) => s[1] = s[2]
          /\ s[1] <= s[2]
          /\ IF fn.metric = "match" THEN s[1] >= 0 ELSE s[1] >= -s[2]

\* C17 witness: one measurement with an example on which the model is
\* invariant and an example on which it is not, scored below 1
C17_Witness ==
  /\ fn.scores # <<>>
  /\ Len(fn.X) = 2
  /\ OutputInvariantOn(fn.model, fn.X[1])
  /\ fn.X[1] # fn.X[2]
  /\ ~OutputInvariantOn(fn.model, fn.X[2])
  /\ fn.scores[2][1] < fn.scores[2][2]

\* ======================================================================
\* utils.misc.get_best_checkpoint (BestSpec)
\* ======================================================================
\* A file name is a sequence of characters.  A directory is a listing, in the
\* order glob returns it, of files described by what the training run of
\* train_stl10_model saved: a checkpoint of an epoch with a validation
\* accuracy (in hundredths), or the final weights "m.pt".

Digits == <<"0", "1", "2", "3", "4", "5", "6", "7", "8", "9">>
Digit(d) == Digits[d + 1]

\* "{epoch:02d}"
FormatEpoch(epoch) == <<Digit(epoch \div 10), Digit(epoch % 10)>>

\* "{val_acc:.2f}" of an accuracy of acc hundredths
FormatAcc(acc) == <<Digit(acc \div 100), ".", Digit((acc \div 10) % 10), Digit(acc % 10)>>

ValAccTag == <<"v", "a", "l", "_", "a", "c", "c", "=">>
CkptSuffix == <<".", "c", "k", "p", "t">>

\* filename = model_name + "-{epoch:02d}-{val_acc:.2f}", as the checkpoint
\* callback writes it: "m-epoch=03-val_acc=0.85.ckpt"
FileName(file) ==
  IF file.kind = "weights" THEN <<"m", ".", "p", "t">>
  ELSE <<"m", "-", "e", "p", "o", "c", "h", "=">> \o FormatEpoch(file.epoch)
         \o <<"-">> \o ValAccTag \o FormatAcc(file.acc) \o CkptSuffix

SavedFiles ==
  {[kind |-> "ckpt", epoch |-> e, acc |-> a] : e \in {3, 12}, a \in {7, 85, 100}}
    \cup {[kind |-> "weights", epoch |-> 0, acc |-> 0]}

Listings ==
  {d \in SeqsUpTo(SavedFiles, MaxFiles) :
     \A i \in 1..Len(d) : \A j \in 1..Len(d) : i # j => d[i] # d[j]}

\* name[a:b], Python's slice with 0-based bounds, clipped to the name
Slice(name, a, b) ==
  LET hi == IF b > Len(name) THEN Len(name) ELSE b
  IN  IF a >= hi THEN <<>> ELSE SubSeq(name, a + 1, hi)

\* name.find(pat): the 0-based position of the first occurrence, -1 if none
Find(name, pat) ==
  LET hits == {i \in 0..(Len(name) - Len(pat)) : Slice(name, i, i + Len(pat)) = pat}
  IN  IF hits = {} THEN -1 ELSE CHOOSE i \in hits : \A k \in hits : i <= k

DigitValue(c) == CHOOSE d \in 0..9 : Digit(d) = c
IsDigit(c) == \E d \in 0..9 : Digit(d) = c

\* float(text) for a text "d.dd", in hundredths; -1 stands for ValueError
ParseFloat(text) ==
  IF /\ Len(text) = 4
     /\ IsDigit(text[1]) /\ text[2] = "." /\ IsDigit(text[3]) /\ IsDigit(text[4])
  THEN 100 * DigitValue(text[1]) + 10 * DigitValue(text[3]) + DigitValue(text[4])
  ELSE -1

\* checkpoint_dir.glob("*.ckpt"): the listed names that end with ".ckpt"
MatchesCkptGlob(name) ==
  /\ Len(name) >= Len(CkptSuffix)
  /\ Slice(name, Len(name) - Len(CkptSuffix), Len(name)) = CkptSuffix

get_all_checkpoint_paths(names) == SelectSeq(names, MatchesCkptGlob)

\* mutant: the last index of the largest value
argmaxLast(values) ==
  CHOOSE i \in 1..Len(values) :
    /\ \A k \in 1..Len(values) : values[k] <= values[i]
    /\ \A k \in (i + 1)..Len(values) : values[k] < values[i]

\* np.argmax: the first index of the largest value
argmax(values) ==
  CHOOSE i \in 1..Len(values) :
    /\ \A k \in 1..Len(values) : values[k] <= values[i]
    /\ \A k \in 1..(i - 1) : values[k] < values[i]

\* get_best_checkpoint on a listing of names: the path returned, or raised
\* (float() of a text that is no number, np.argmax of an empty list)
get_best_checkpoint(names) ==
  LET checkpoint_paths == get_all_checkpoint_paths(names)
      accuracies == [k \in 1..Len(checkpoint_paths) |->
                       LET str_idx == Find(checkpoint_paths[k], ValAccTag) + 8
                       IN  ParseFloat(Slice(checkpoint_paths[k], str_idx, str_idx + 4))]
  IN  IF (\E k \in 1..Len(accuracies) : accuracies[k] = -1) \/ Len(accuracies) = 0
      THEN [raised |-> TRUE, path |-> <<>>]
      ELSE [raised |-> FALSE, path |-> checkpoint_paths[argmax(accuracies)]]

BestCall ==
  /\ ~fn.done
  /\ fn' = [fn EXCEPT !.done = TRUE,
                      !.result = get_best_checkpoint([k \in 1..Len(fn.dir) |->
                                                        FileName(fn.dir[k])])]

BestInit ==
  /\ EngineInit
  /\ graph = NoGraphEngine
  /\ hook = HookInit0
  /\ sx = NoCall
  /\ \E d \in Listings :
       fn = [op |-> "best", dir |-> d, done |-> FALSE,
             result |-> [raised |-> FALSE, path |-> <<>>]]

BestNext == BestCall /\ UNCHANGED invFrame

BestSpec == BestInit /\ [][BestNext]_vars

\* the positions of the checkpoints in the listing
CkptPositions == {k \in 1..Len(fn.dir) : fn.dir[k].kind = "ckpt"}

\* C18: get_best_checkpoint returns one of the *.ckpt files of the directory,
\* its validation accuracy is the highest of all those files, and among the
\* files of that accuracy it is the first of the listing.
C18_BestCheckpointIsFirstMax ==
  (fn.done /\ CkptPositions # {}) =>
    /\ ~fn.result.raised
    /\ \E k \in CkptPositions :
         /\ fn.result.path = FileName(fn.dir[k])
         /\ \A j \in CkptPositions : fn.dir[j].acc <= fn.dir[k].acc
         /\ \A j \in CkptPositions : j < k => fn.dir[j].acc < fn.dir[k].acc

\* C18 witness: two checkpoints share the highest accuracy, a third file is
\* listed before them, and the first of the two was returned
C18_Witness ==
  /\ fn.done
  /\ Len(fn.dir) = 3
  /\ fn.dir[1].kind = "ckpt" /\ fn.dir[1].acc < fn.dir[2].acc
  /\ fn.dir[2].kind = "ckpt" /\ fn.dir[3].kind = "ckpt"
  /\ fn.dir[2].acc = fn.dir[3].acc
  /\ fn.result.path = FileName(fn.dir[2])

\* ======================================================================
\* The checkpoint loop of TracIn, iteration by iteration (ReplaySpec)
\* ======================================================================
\* `fn` holds the loop "for checkpoint in self.checkpoints" of TracIn.forward
\* (compute_train_grads has the same loop) for one example: the list, the
\* index k of the current checkpoint, the stage within the iteration, the
\* accumulated gradient, and a record of what was done: the events in order,
\* the gradient taken at each iteration and the parameters before the loop.

\* mutant: the list is walked from its end
checkpointFromEnd(checkpoints, k) == checkpoints[Len(checkpoints) - k + 1]

\* the checkpoint of iteration k of "for checkpoint in self.checkpoints"
checkpointOfIteration(checkpoints, k) == checkpoints[k]

\* self.model.load_state_dict(self.load_model_dict(checkpoint), strict=False)
ReplayLoad ==
  /\ fn.stage = "load"
  /\ LET checkpoint == checkpointOfIteration(fn.checkpoints, fn.k)
     IN  /\ theta' = load_state_dict(theta, load_model_dict(checkpoint))
         /\ fn' = [fn EXCEPT !.stage = "grad",
                             !.log = Append(@, <<"load", checkpoint>>)]

\* the gradient of the example's loss at the parameters now in the model,
\* added to (or starting) the accumulated gradient
ReplayGrad ==
  /\ fn.stage = "grad"
  /\ LET g == direct_sum(LastLayerGrads(theta, fn.ex))
     IN  fn' = [fn EXCEPT !.grad = IF @ # None THEN VAdd(@, g) ELSE g,
                          !.taken = Append(@, g),
                          !.log = Append(@, <<"grad", fn.k>>),
                          !.k = @ + 1,
                          !.stage = IF fn.k < Len(fn.checkpoints) THEN "load" ELSE "done"]
  /\ UNCHANGED theta

\* the caller changes the parameters before the loop starts
ReplayChangeParams ==
  /\ fn.log = <<>>
  /\ ChangeParams
  /\ fn' = [fn EXCEPT !.th0 = theta']

ReplayInit ==
  /\ EngineInit
  /\ graph = NoGraphEngine
  /\ hook = HookInit0
  /\ sx = NoCall
  /\ \E checkpoints \in CkptLists, ex \in TestPool :
       fn = [op |-> "replay", checkpoints |-> checkpoints, ex |-> ex, k |-> 1,
             stage |-> IF checkpoints = <<>> THEN "done" ELSE "load",
             grad |-> None, taken |-> <<>>, log |-> <<>>, th0 |-> Theta0]

ReplayNext ==
  \/ (ReplayLoad /\ UNCHANGED hvpFrame)
  \/ (ReplayGrad /\ UNCHANGED hvpFrame)
  \/ (ReplayChangeParams /\ UNCHANGED <<hook, graph, sx>>)

ReplaySpec == ReplayInit /\ [][ReplayNext]_vars

\* the parameters of the model once the first k checkpoints of the list were
\* loaded, one after the other, over th0
RECURSIVE ParamsAfter(_, _, _)
ParamsAfter(th0, checkpoints, k) ==
  IF k = 0 THEN th0
  ELSE LET before == ParamsAfter(th0, checkpoints, k - 1)
           loaded == load_model_dict(checkpoints[k])
       IN  [key \in Keys |-> IF key \in DOMAIN loaded THEN loaded[key] ELSE before[key]]

\* C19: for one example, every checkpoint of the list is loaded exactly once
\* and in list order, and the gradient attributed to checkpoint k is taken
\* after checkpoint k was loaded and before checkpoint k+1 is: the events are
\* load 1, gradient 1, load 2, gradient 2, ..., and gradient k is the gradient
\* at the parameters the first k loads produce.
C19_CheckpointsReplayedInOrder ==
  /\ \A n \in 1..Len(fn.log) :
       fn.log[n] = IF n % 2 = 1 THEN <<"load", fn.checkpoints[(n + 1) \div 2]>>
                                ELSE <<"grad", n \div 2>>
  /\ \A k \in 1..Len(fn.taken) :
       fn.taken[k] = direct_sum(LastLayerGrads(ParamsAfter(fn.th0, fn.checkpoints, k), fn.ex))
  /\ fn.stage = "done" =>
       /\ Len(fn.log) = 2 * Len(fn.checkpoints)
       /\ fn.grad = CheckpointLoop(fn.th0, fn.checkpoints, fn.ex, None).grad
       /\ theta = CheckpointLoop(fn.th0, fn.checkpoints, fn.ex, None).th

\* C19 witness: a loop over two checkpoints has ended, the two gradients
\* taken differ
C19_Witness ==
  /\ fn.stage = "done"
  /\ Len(fn.checkpoints) = 2
  /\ Len(fn.taken) = 2
  /\ fn.taken[1] # fn.taken[2]

\* ======================================================================
\* TracIn leaves the last checkpoint in the model (specification Spec)
\* ======================================================================

\* the model holds the parameters of the last checkpoint of the instance's
\* list, for the keys that checkpoint contains
HoldsLastCheckpoint(th, i) ==
  LET checkpoints == eng[i].checkpoints
      last == load_model_dict(checkpoints[Len(checkpoints)])
  IN  \A key \in DOMAIN last \cap Keys : th[key] = last[key]

\* a step in which TracIn.forward or compute_train_grads returns
TracInReturns ==
  /\ cur # 0
  /\ eng[cur].kind = "tracin"
  /\ eng[cur].checkpoints # <<>>
  /\ \/ (pc = "query" /\ pc' = "idle" /\ outcome' = "ok")
     \/ (pc = "precompute" /\ pc' = "query")

\* C20 as stated: when TracIn.forward or compute_train_grads returns, the
\* model holds the parameters of the last checkpoint of the list.
C20_ModelHoldsLastCheckpoint ==
  [][TracInReturns => HoldsLastCheckpoint(theta', cur)]_vars

\* the call that returns in this step ran the checkpoint loop for at least one
\* example: compute_train_grads for a training example (ti counts them from
\* 1), forward for a test example or, through compute_train_grads, for a
\* training example
ProcessedAnExample ==
  \/ (pc = "precompute" /\ ti > 1)
  \/ (pc = "query" /\ (Len(xq) >= 1 \/ ti > 1))

\* C20 amended: when a TracIn.forward or compute_train_grads call that ran
\* the checkpoint loop for at least one example returns, the model holds the
\* parameters of the last checkpoint of the list, and the return itself puts
\* nothing back.
C20_ModelHoldsLastCheckpointAfterLoop ==
  /\ [][(TracInReturns /\ ProcessedAnExample)
          => HoldsLastCheckpoint(theta', cur)]_vars
  /\ [][TracInReturns => theta' = theta]_vars

\* a query of two checkpoints over a test example has returned and the model
\* holds the last checkpoint's parameters, which no caller had set
C20_Witness ==
  /\ cur # 0
  /\ eng[cur].kind = "tracin"
  /\ Len(eng[cur].checkpoints) = 2
  /\ pc = "idle"
  /\ outcome = "ok"
  /\ Len(xq) >= 1
  /\ HoldsLastCheckpoint(theta, cur)
  /\ theta \notin ThetaPool

\* ======================================================================
\* Checkpoints that hold only some of the parameters (ReplaySpec)
\* ======================================================================

\* the number of checkpoints loaded so far in the loop
LoadsDone == (Len(fn.log) + 1) \div 2

\* the latest of the first k checkpoints of the list that holds the key, 0
\* when none does
LastHolder(checkpoints, k, key) ==
  LET holders == {j \in 1..k : key \in DOMAIN load_model_dict(checkpoints[j])}
  IN  IF holders = {} THEN 0 ELSE CHOOSE j \in holders : \A i \in holders : i <= j

\* C21: loading a checkpoint that holds only some of the model's parameters
\* does not stop the loop; at every moment of the replay each parameter has
\* the value of the latest loaded checkpoint that holds it, and the value it
\* had before the loop when no loaded checkpoint holds it.
C21_AbsentKeysCarryOver ==
  /\ fn.stage \in {"load", "grad", "done"}
  /\ \A key \in Keys :
       LET j == LastHolder(fn.checkpoints, LoadsDone, key)
       IN  theta[key] = IF j = 0 THEN fn.th0[key]
                        ELSE load_model_dict(fn.checkpoints[j])[key]

\* C21 witness: a loop over a full checkpoint then one holding the weight only
\* has ended; the bias is the first checkpoint's, not the one before the loop
C21_Witness ==
  /\ fn.stage = "done"
  /\ fn.checkpoints = <<CkptA, CkptC>>
  /\ fn.th0 = Theta1
  /\ theta = [body |-> 1, w |-> 0, b |-> 0]

\* ======================================================================
\* The two optimization loops, step by step (LoopSpec)
\* ======================================================================
\* One call of SimplEx.compute_weights, in `sx` as in WeightSpec, or one call
\* of InfluenceFunctions.evaluate_ihvp, in `fn`: the training set size n, the
\* recursion depth, the mini-batches one pass over train_loader yields, the
\* training index idx of the outer loop, the recursion steps done for it, the
\* number of batches drawn from the current train_sampler (pos), the number
\* of samplers created (passes), ihvp as a numerator over Scale^step, the
\* record of what was saved, and the flag self.ihvp.

Loaders ==
  {[k \in 1..m |-> IF k % 2 = 1 THEN <<Example1>> ELSE <<Example2, Example1>>] :
     m \in 0..MaxLoader}

\* mutant: the sampler of the previous training example is drawn from again
samplerKept(pos) == pos

\* train_sampler = iter(self.train_loader): a new pass, no batch drawn yet
newSampler(pos) == 0

\* the top of "for train_idx, (x_train, y_train) in enumerate(subtrain_loader)":
\* the gradient of the example, ihvp = grad, a new sampler
IhvpBeginExample ==
  /\ fn.stage = "outer"
  /\ fn.idx < fn.n
  /\ LET grad == direct_sum(LastLayerGrads(theta, TrainPool[fn.idx + 1]))
     IN  fn' = [fn EXCEPT !.grad = grad, !.ihvp = grad, !.step = 0,
                          !.pos = newSampler(@), !.passes = @ + 1,
                          !.stage = "inner"]

\* one iteration of "for _ in range(self.recursion_depth)": next(train_sampler)
\* raises StopIteration when the pass is exhausted, else one recursion step
IhvpRecursionStep ==
  /\ fn.stage = "inner"
  /\ fn.step < fn.depth
  /\ IF fn.pos >= Len(fn.loader)
     THEN fn' = [fn EXCEPT !.stage = "raised"]
     ELSE fn' = [fn EXCEPT !.ihvp = IhvpStep(theta, fn.grad, @, fn.loader[fn.pos + 1], fn.step),
                           !.pos = @ + 1,
                           !.step = @ + 1]

\* torch.save(ihvp, train_ihvp{train_idx}.pt) once the inner loop has ended
IhvpSaveExample ==
  /\ fn.stage = "inner"
  /\ fn.step >= fn.depth
  /\ fn' = [fn EXCEPT !.saved = Append(@, [idx |-> fn.idx, steps |-> fn.step,
                                            val |-> fn.ihvp]),
                       !.idx = @ + 1,
                       !.stage = "outer"]

\* self.ihvp = True after the last training example
IhvpFinish ==
  /\ fn.stage = "outer"
  /\ fn.idx >= fn.n
  /\ fn' = [fn EXCEPT !.flag = TRUE, !.stage = "done"]

\* the activation matrices compute_weights is called on: no row, one row, two
\* rows
LoopActs == {<<>>, << <<0, 1>> >>, << <<2, 0>>, <<1, 3>> >>}

LoopInit ==
  /\ EngineInit
  /\ graph = NoGraphEngine
  /\ hook = HookInit0
  /\ \/ /\ fn = [op |-> "compute_weights", stage |-> "none"]
        /\ \E H \in LoopActs, H_train \in LoopActs, n_epoch \in 0..MaxEpoch :
             sx = [H |-> H, H_train |-> H_train, n_epoch |-> n_epoch, epoch |-> 0,
                   preweights |-> ZeroPreweights(H, H_train), weights |-> <<>>,
                   pc |-> "loop"]
     \/ /\ sx = NoCall
        /\ \E n \in 0..MaxTrain, depth \in IhvpDepths, loader \in Loaders :
             fn = [op |-> "evaluate_ihvp", n |-> n, depth |-> depth, loader |-> loader,
                   idx |-> 0, step |-> 0, pos |-> 0, passes |-> 0, grad |-> None,
                   ihvp |-> None, saved |-> <<>>, flag |-> FALSE, stage |-> "outer"]

LoopNext ==
  \/ (EpochStep /\ UNCHANGED weightFrame)
  \/ (ReturnWeights /\ UNCHANGED weightFrame)
  \/ (IhvpBeginExample /\ UNCHANGED <<theta, hvpFrame>>)
  \/ (IhvpRecursionStep /\ UNCHANGED <<theta, hvpFrame>>)
  \/ (IhvpSaveExample /\ UNCHANGED <<theta, hvpFrame>>)
  \/ (IhvpFinish /\ UNCHANGED <<theta, hvpFrame>>)

\* a call that has started goes on running: each loop is sequential code
LoopSpec == LoopInit /\ [][LoopNext]_vars /\ WF_vars(LoopNext)

\* evaluate_ihvp is the function called
InIhvp == fn.op = "evaluate_ihvp"

\* C22: compute_weights returns after exactly n_epoch optimizer steps and
\* never before, and it returns; evaluate_ihvp saves each training example
\* after exactly recursion_depth recursion steps, creates one sampler per
\* training example, ends (completed or raised), and completes with all
\* training examples saved when a pass of the loader yields at least
\* recursion_depth mini-batches.
C22_LoopsHaveFixedLength ==
  /\ [](sx.pc = "done" => sx.epoch = sx.n_epoch)
  /\ [][sx'.epoch # sx.epoch => (sx'.epoch = sx.epoch + 1 /\ sx'.epoch <= sx.n_epoch)]_vars
  /\ (sx.pc = "loop") ~> (sx.pc = "done")
  /\ [](InIhvp =>
         /\ \A k \in 1..Len(fn.saved) :
              fn.saved[k].idx = k - 1 /\ fn.saved[k].steps = fn.depth
         /\ fn.passes = Len(fn.saved) + (IF fn.stage \in {"inner", "raised"} THEN 1 ELSE 0)
         /\ fn.stage = "inner" => fn.pos = fn.step
         /\ fn.stage = "done" => (Len(fn.saved) = fn.n /\ fn.flag)
         /\ fn.flag => fn.stage = "done"
         /\ Len(fn.loader) >= fn.depth => fn.stage # "raised")
  /\ InIhvp ~> (fn.stage \in {"done", "raised"})
  /\ (InIhvp /\ Len(fn.loader) >= fn.depth) ~> (fn.stage = "done")

\* C22 witness: evaluate_ihvp has completed for two training examples with
\* two recursion steps each on a loader of exactly two mini-batches
C22_Witness ==
  /\ InIhvp
  /\ fn.stage = "done"
  /\ fn.n = 2
  /\ fn.depth = 2
  /\ Len(fn.loader) = 2
  /\ fn.passes = 2

\* the weights loop has returned after its last step
C22_WeightsReturned ==
  /\ sx.pc = "done"
  /\ sx.n_epoch = MaxEpoch

\* ======================================================================
\* The experiment functions and their captures (ExperimentSpec)
\* ======================================================================
\* `fn` holds one run of an experiment function of a script: the script file,
\* the function, the index of the model being worked on, the statement of the
\* loop body about to run, the handle of the explainer last constructed, and
\* the captures registered, each <<model, layer, statement>>.

ExperimentFiles == {"ecg", "fashion_mnist", "stl10"}

ExperimentsOf(file) ==
  IF file = "stl10" THEN {"example_importance", "concept_importance"}
  ELSE {"example_importance", "concept_importance", "enforce_invariance"}

\* the dictionary "models" of the function
ModelsOf(file, name) ==
  IF file = "stl10" THEN <<"D8-Wide-ResNet">>
  ELSE IF name = "enforce_invariance" THEN <<"All-CNN">>
  ELSE <<"All-CNN", "Standard-CNN", "Augmented-CNN">>

\* the dictionary "attr_methods" of example_importance, in its order
ExampleMethods(file) ==
  IF file = "ecg"
  THEN <<"SimplEx", "Representation Similarity", "TracIn", "Influence Functions">>
  ELSE <<"Representation Similarity", "TracIn", "Influence Functions", "SimplEx">>

\* the dictionary "attr_methods" of concept_importance and enforce_invariance
ConceptMethods(file) == IF file = "stl10" THEN <<"CAR", "CAV">> ELSE <<"CAV", "CAR">>

\* the dictionary "model_layers"
ModelLayers(file) == IF file = "stl10" THEN <<"Conv1", "Layer3">> ELSE <<"Lin1", "Conv3">>

\* the number of values of N_inv enforce_invariance loops over
InvCount(file) == IF file = "ecg" THEN 6 ELSE 5

\* an explainer that registers a capture on its layer when constructed
LayerBased(method) == method \in {"SimplEx", "Representation Similarity", "CAV", "CAR"}

Stmt(op, method, layer) == [op |-> op, method |-> method, layer |-> layer]

RECURSIVE Concat(_)
Concat(blocks) == IF blocks = <<>> THEN <<>> ELSE Head(blocks) \o Concat(Tail(blocks))

\* the body of "for attr_name in attr_methods" of example_importance
ExampleScript(file) ==
  Concat([k \in 1..Len(ExampleMethods(file)) |->
    LET method == ExampleMethods(file)[k]
    IN  IF method \in {"TracIn", "Influence Functions"}
        THEN <<Stmt("construct", method, "none"), Stmt("measure", method, "none")>>
        ELSE Concat([l \in 1..Len(ModelLayers(file)) |->
               <<Stmt("construct", method, ModelLayers(file)[l]),
                 Stmt("measure", method, ModelLayers(file)[l]),
                 Stmt("remove_hook", method, ModelLayers(file)[l])>>])])

\* the body of "for layer_name, attr_name in itertools.product(model_layers,
\* attr_methods)" of concept_importance
ConceptScript(file) ==
  Concat([l \in 1..Len(ModelLayers(file)) |->
    Concat([k \in 1..Len(ConceptMethods(file)) |->
      LET method == ConceptMethods(file)[k]
          layer == ModelLayers(file)[l]
      IN  <<Stmt("construct", method, layer), Stmt("fit", method, layer),
            Stmt("concept_accuracy", method, layer), Stmt("measure", method, layer),
            Stmt("remove_hook", method, layer)>>])])

\* the body of "for attr_name in attr_methods" of enforce_invariance: the
\* explainer on model.cnn3, fit, one measurement per value of N_inv
EnforceScript(file) ==
  Concat([k \in 1..Len(ConceptMethods(file)) |->
    LET method == ConceptMethods(file)[k]
    IN  <<Stmt("construct", method, "Conv3"), Stmt("fit", method, "Conv3")>>
          \o [i \in 1..InvCount(file) |-> Stmt("measure", method, "Conv3")]])

Script(file, name) ==
  CASE name = "example_importance" -> ExampleScript(file)
    [] name = "concept_importance" -> ConceptScript(file)
    [] name = "enforce_invariance" -> EnforceScript(file)

\* the statement about to run
AtStmt(op) ==
  /\ fn.stage = "running"
  /\ fn.line <= Len(Script(fn.file, fn.name))
  /\ Script(fn.file, fn.name)[fn.line].op = op

\* attr_methods[attr_name](model, ..., layer=...): a layer-based explainer
\* registers its capture on the layer
ExpConstruct ==
  /\ AtStmt("construct")
  /\ LET stmt == Script(fn.file, fn.name)[fn.line]
         handle == <<fn.model, stmt.layer, fn.line>>
     IN  IF LayerBased(stmt.method)
         THEN fn' = [fn EXCEPT !.handle = handle, !.hooks = @ \cup {handle},
                               !.line = @ + 1]
         ELSE fn' = [fn EXCEPT !.handle = <<>>, !.line = @ + 1]

\* fit, concept_accuracy, explanation_invariance_exact: the explainer is used
ExpUse ==
  /\ \/ AtStmt("fit")
     \/ AtStmt("concept_accuracy")
     \/ AtStmt("measure")
  /\ fn' = [fn EXCEPT !.line = @ + 1, !.uses = @ + 1]

\* ex_importance.remove_hook() / conc_importance.remove_hook()
ExpRemoveHook ==
  /\ AtStmt("remove_hook")
  /\ fn' = [fn EXCEPT !.hooks = RemoveHandle(@, fn.handle), !.line = @ + 1]

\* "for model_type in models": the next model
ExpNextModel ==
  /\ fn.stage = "running"
  /\ fn.line > Len(Script(fn.file, fn.name))
  /\ fn.model < Len(ModelsOf(fn.file, fn.name))
  /\ fn' = [fn EXCEPT !.model = @ + 1, !.line = 1, !.uses = 0]

\* the function returns
ExpReturn ==
  /\ fn.stage = "running"
  /\ fn.line > Len(Script(fn.file, fn.name))
  /\ fn.model >= Len(ModelsOf(fn.file, fn.name))
  /\ fn' = [fn EXCEPT !.stage = "done"]

ExperimentInit ==
  /\ EngineInit
  /\ graph = NoGraphEngine
  /\ hook = HookInit0
  /\ sx = NoCall
  /\ \E file \in ExperimentFiles :
       \E name \in ExperimentsOf(file) :
         fn = [op |-> "experiment", file |-> file, name |-> name, model |-> 1,
               line |-> 1, handle |-> <<>>, hooks |-> {}, uses |-> 0,
               stage |-> "running"]

ExperimentNext ==
  \/ (ExpConstruct /\ UNCHANGED <<theta, hvpFrame>>)
  \/ (ExpUse /\ UNCHANGED <<theta, hvpFrame>>)
  \/ (ExpRemoveHook /\ UNCHANGED <<theta, hvpFrame>>)
  \/ (ExpNextModel /\ UNCHANGED <<theta, hvpFrame>>)
  \/ (ExpReturn /\ UNCHANGED <<theta, hvpFrame>>)

ExperimentSpec == ExperimentInit /\ [][ExperimentNext]_vars

\* the captures registered on a model
CapturesOn(model) == {h \in fn.hooks : h[1] = model}

\* C23 as stated: in example_importance, concept_importance and
\* enforce_invariance every explainer's capture is removed before the next
\* explainer is constructed on the same model, so at most one capture is
\* attached to a model at any time.
C23_AtMostOneCapture ==
  \A model \in 1..Len(ModelsOf(fn.file, fn.name)) : Cardinality(CapturesOn(model)) <= 1

\* the same property for example_importance and concept_importance only
C23_AtMostOneCaptureWhereRemoved ==
  fn.name # "enforce_invariance" => C23_AtMostOneCapture

\* ======================================================================
\* A precomputation that fails part-way (FaultSpec)
\* ======================================================================
\* one engine, and a statement of the loop body of compute_train_grads /
\* evaluate_ihvp (loading a checkpoint, saving the result) that can raise at
\* any training example

PrecomputeFault ==
  /\ pc = "precompute"
  /\ ti <= eng[cur].n
  /\ Raise
  /\ UNCHANGED <<theta, eng, dirs, files, cur, xq, ti, qi, tj, test_grad, attribution,
                 nForward, nCompute, nTestGrad, reads, readLog>>

FaultNext ==
  \/ (ConstructTracIn({1}, {"d1"}, SharedCkptLists) /\ UNCHANGED <<hook, graph, sx, fn>>)
  \/ (ConstructInfluenceFunctions({1}, {"d1"}) /\ UNCHANGED <<hook, graph, sx, fn>>)
  \/ ((\E x \in TestBatches : Forward(1, x, MaxQueries + 1)) /\ UNCHANGED <<hook, graph, sx, fn>>)
  \/ (TracInTrainStep /\ UNCHANGED <<hook, graph, sx, fn>>)
  \/ (InfluenceTrainStep /\ UNCHANGED <<hook, graph, sx, fn>>)
  \/ (PrecomputeDone /\ UNCHANGED <<hook, graph, sx, fn>>)
  \/ (PrecomputeFault /\ UNCHANGED <<hook, graph, sx, fn>>)
  \/ (TracInTestGrad /\ UNCHANGED <<hook, graph, sx, fn>>)
  \/ (InfluenceTestGrad /\ UNCHANGED <<hook, graph, sx, fn>>)
  \/ (ReadStep /\ UNCHANGED <<hook, graph, sx, fn>>)
  \/ (Return /\ UNCHANGED <<hook, graph, sx, fn>>)

FaultSpec == Init /\ [][FaultNext]_vars

\* C24: the flag of an instance is True only if the instance has written the
\* cache file of every training index; a precomputation that raises leaves
\* the flag False, and the next query on the instance starts the
\* precomputation again at training index 0.
C24_FlagOnlyAfterFullCache ==
  /\ [](\A i \in Inst : (eng[i].kind # "none" /\ Precomputed(i)) =>
          \A idx \in 0..(eng[i].n - 1) : CachePath(i, idx) \in Written(i))
  /\ [][(pc = "precompute" /\ outcome' = "raised") => ~Precomputed(cur)']_vars
  /\ [][(pc = "idle" /\ pc' # "idle" /\ ~Precomputed(cur'))
          => (pc' = "precompute" /\ ti' = 1)]_vars

\* C24 witness: a pass that failed after writing the first file was started
\* again by the next query, which is at training index 0 with that file on
\* disk and the flag False
C24_Witness ==
  /\ pc = "precompute"
  /\ nCompute[cur] = 2
  /\ ti = 1
  /\ ~Precomputed(cur)
  /\ CachePath(cur, 0) \in Written(cur)
  /\ CachePath(cur, 1) \notin DOMAIN files
  /\ eng[cur].n = 2

\* a pass that failed once has completed at the second attempt
C24_CompletedAfterFailure ==
  /\ cur # 0
  /\ Precomputed(cur)
  /\ nCompute[cur] = 2
  /\ eng[cur].n = 2

\* ======================================================================
\* forward after remove_hook (AfterRemovalSpec)
\* ======================================================================
\* the explainers of HookSpec; `fn` holds, per explainer, the input of the last
\* forward pass made before its hook was removed, and the explainer and the
\* argument x of the last call of forward, with whether the hook had been
\* removed when it was made

RemoveHookLogged(e) ==
  /\ remove_hook(e)
  /\ fn' = IF e \in hook.hooks THEN [fn EXCEPT !.atRemoval[e] = hook.lastIn] ELSE fn

ExplainerForwardLogged(e, x) ==
  /\ ExplainerForward(e, x)
  /\ fn' = [fn EXCEPT !.e = e, !.x = x, !.removed = hook.expl[e].removed,
                      !.calls = @ + 1]

removalFrame == <<theta, eng, dirs, files, pc, cur, xq, ti, qi, tj, test_grad,
                  attribution, outcome, nForward, nCompute, nTestGrad, reads, readLog,
                  graph, sx>>

AfterRemovalInit ==
  /\ EngineInit
  /\ graph = NoGraphEngine
  /\ sx = NoCall
  /\ \E g \in BOOLEAN : hook = [HookInit0 EXCEPT !.geometric = g]
  /\ fn = [op |-> "forward", atRemoval |-> [e \in Expl |-> <<>>], e |-> 0, x |-> <<>>,
           removed |-> FALSE, calls |-> 0]

AfterRemovalNext ==
  \/ ((\E e \in Expl, kind \in HookKinds : ConstructExplainer(e, kind))
        /\ UNCHANGED hookFrame)
  \/ ((\E e \in Expl : RemoveHookLogged(e)) /\ UNCHANGED removalFrame)
  \/ ((\E batch \in HookBatches : ModelForward(batch)) /\ UNCHANGED hookFrame)
  \/ ((\E e \in Expl, x \in HookBatches : ExplainerForwardLogged(e, x))
        /\ UNCHANGED removalFrame)

AfterRemovalSpec == AfterRemovalInit /\ [][AfterRemovalNext]_vars

\* C25: a call forward(x) made after remove_hook returns, and its attribution
\* is computed from the activation of the last forward pass made before the
\* removal and from H_train, whatever x is.
C25_ForwardAfterRemovalIsStale ==
  (fn.calls > 0 /\ fn.removed) =>
    /\ hook.result.e = fn.e
    /\ hook.result.H = Flatten(LayerData(theta, fn.atRemoval[fn.e]))
    /\ hook.result.H_train = Flatten(LayerData(theta, HookTrain))

\* C25 witness: a call made after the removal on a batch of another size than
\* the one of the last pass before the removal, which was not the pass of the
\* construction
C25_Witness ==
  /\ fn.calls > 0
  /\ fn.removed
  /\ Len(fn.x) # Len(fn.atRemoval[fn.e])
  /\ fn.atRemoval[fn.e] # HookTrain
  /\ hook.lastIn = fn.x
  /\ Len(hook.result.H) # Len(fn.x)

\* ======================================================================
\* H_train after construction (FixedTrainSpec)
\* ======================================================================
\* the explainers of HookSpec on a model whose parameters the caller changes
\* between two passes; `fn` holds, per explainer, the parameters the model had
\* when the explainer was constructed

ConstructExplainerLogged(e, kind) ==
  /\ ConstructExplainer(e, kind)
  /\ fn' = [fn EXCEPT !.built[e] = theta, !.changedSince[e] = FALSE]

\* the caller changes the parameters of the model (training, reloading a
\* checkpoint)
ChangeLayerParams ==
  /\ \E th \in ThetaPool : th # theta /\ theta' = th
  /\ fn' = [fn EXCEPT !.changedSince = [e \in Expl |-> hook.expl[e].kind # "none"]]

paramsFrame == <<eng, dirs, files, pc, cur, xq, ti, qi, tj, test_grad, attribution,
                 outcome, nForward, nCompute, nTestGrad, reads, readLog, graph, sx,
                 hook>>

\* the inputs of the forward passes: X_train itself, one other example, and
\* an empty batch
FixedTrainBatches == {HookTrain, <<2>>, <<>>}

FixedTrainInit ==
  /\ EngineInit
  /\ graph = NoGraphEngine
  /\ sx = NoCall
  /\ \E g \in BOOLEAN : hook = [HookInit0 EXCEPT !.geometric = g]
  /\ fn = [op |-> "H_train", built |-> [e \in Expl |-> theta],
           changedSince |-> [e \in Expl |-> FALSE]]

FixedTrainNext ==
  \/ ((\E e \in Expl, kind \in HookKinds : ConstructExplainerLogged(e, kind))
        /\ UNCHANGED removalFrame)
  \/ ((\E e \in Expl : remove_hook(e)) /\ UNCHANGED hookFrame)
  \/ ((\E batch \in FixedTrainBatches : ModelForward(batch)) /\ UNCHANGED hookFrame)
  \/ ((\E e \in Expl, x \in FixedTrainBatches : ExplainerForward(e, x))
        /\ UNCHANGED hookFrame)
  \/ (ChangeLayerParams /\ UNCHANGED paramsFrame)

FixedTrainSpec == FixedTrainInit /\ [][FixedTrainNext]_vars

\* C26: H_train of an explainer is the flattened layer output for X_train
\* under the parameters the model had at construction, and no step (a call of
\* forward, another forward pass, a change of the parameters) modifies it;
\* after every forward pass, H of an attached explainer is the flattened layer
\* output for the input of that pass under the current parameters.
C26_HTrainFixedAtConstruction ==
  /\ [](\A e \in Expl : hook.expl[e].kind # "none" =>
          hook.expl[e].H_train = Flatten(LayerData(fn.built[e], HookTrain)))
  /\ [][\A e \in Expl : hook.expl[e].kind # "none" =>
          hook'.expl[e].H_train = hook.expl[e].H_train]_vars
  /\ [][hook'.nPass # hook.nPass =>
          \A e \in hook'.hooks :
            hook'.expl[e].H = Flatten(LayerData(theta, hook'.lastIn))]_vars

\* C26 witness: after the parameters changed, forward was called on X_train
\* itself; H holds the activations under the new parameters and H_train
\* those under the parameters at construction
C26_Witness ==
  /\ hook.expl[1].kind # "none"
  /\ fn.changedSince[1]
  /\ 1 \in hook.hooks
  /\ hook.result.e = 1
  /\ hook.lastIn = HookTrain
  /\ hook.nPass >= 2
  /\ theta # fn.built[1]
  /\ hook.expl[1].H = Flatten(LayerData(theta, HookTrain))
  /\ hook.expl[1].H_train # hook.expl[1].H
  /\ hook.result.H_train = Flatten(LayerData(fn.built[1], HookTrain))

\* ======================================================================
\* Rows of the attribution matrix (RowSpec)
\* ======================================================================
\* one engine, queried on batches of up to MaxTest examples, with parameter
\* changes by the caller between the queries; `fn` holds the parameters the
\* model had when the loop over the test examples of the current query began

RowCkptLists == {<<CkptA>>, <<CkptA, CkptB>>, <<CkptC, CkptA>>, <<CkptC>>}

ForwardLogged(i, x, maxq) ==
  /\ Forward(i, x, maxq)
  /\ fn' = [fn EXCEPT !.th = theta]

PrecomputeDoneLogged ==
  /\ PrecomputeDone
  /\ fn' = [fn EXCEPT !.th = theta]

RowInit ==
  /\ EngineInit
  /\ hook = HookInit0
  /\ graph = NoGraphEngine
  /\ sx = NoCall
  /\ fn = [op |-> "forward", th |-> theta]

RowNext ==
  \/ (ConstructTracIn({1}, {"d1"}, RowCkptLists) /\ UNCHANGED <<hook, graph, sx, fn>>)
  \/ (ConstructInfluenceFunctions({1}, {"d1"}) /\ UNCHANGED <<hook, graph, sx, fn>>)
  \/ ((\E x \in TestBatches : ForwardLogged(1, x, MaxQueries)) /\ UNCHANGED <<hook, graph, sx>>)
  \/ (TracInTrainStep /\ UNCHANGED <<hook, graph, sx, fn>>)
  \/ (InfluenceTrainStep /\ UNCHANGED <<hook, graph, sx, fn>>)
  \/ (PrecomputeDoneLogged /\ UNCHANGED <<hook, graph, sx>>)
  \/ (TracInTestGrad /\ UNCHANGED <<hook, graph, sx, fn>>)
  \/ (InfluenceTestGrad /\ UNCHANGED <<hook, graph, sx, fn>>)
  \/ (ReadStep /\ UNCHANGED <<hook, graph, sx, fn>>)
  \/ (Return /\ UNCHANGED <<hook, graph, sx, fn>>)
  \/ (ChangeParams /\ UNCHANGED <<hook, graph, sx, fn>>)

RowSpec == RowInit /\ [][RowNext]_vars

\* the single row that forward returns for the one-example batch <<ex>> when
\* its loop over the test examples begins with the model at parameters th and
\* the cache files now on disk
SingleQueryRow(i, th, ex) ==
  LET tg == IF eng[i].kind = "tracin"
            THEN CheckpointLoop(th, eng[i].checkpoints, ex, None).grad
            ELSE direct_sum(LastLayerGrads(th, ex))
  IN  [j \in 1..eng[i].n |-> Entry(files[CachePath(i, j - 1)], tg)]

\* the returned matrix has one row per test example and one column per
\* training example, and row r is the row of the query on xq[r] alone
RowsAreSingleQueries ==
  /\ Len(attribution) = Len(xq)
  /\ \A r \in 1..Len(xq) :
       /\ Len(attribution[r]) = eng[cur].n
       /\ attribution[r] = SingleQueryRow(cur, fn.th, xq[r])

\* C27 as stated: for TracIn and InfluenceFunctions, row i of the result of a
\* query on a batch x equals the single row returned by a query on x[i]
\* alone, and the matrix has shape (len(x), len(X_train)) with every entry
\* assigned.
C27_RowsIndependent ==
  (cur # 0 /\ pc = "idle" /\ outcome = "ok") => RowsAreSingleQueries

\* C27 amended: the same for InfluenceFunctions, and for TracIn when every
\* checkpoint of the list holds every parameter of the model.
C27_RowsIndependentCompleteCheckpoints ==
  (/\ cur # 0
   /\ pc = "idle"
   /\ outcome = "ok"
   /\ \A k \in 1..Len(eng[cur].checkpoints) : Complete(eng[cur].checkpoints[k]))
  => RowsAreSingleQueries

\* C27 witness: the second query of a TracIn on two complete checkpoints,
\* made after the caller changed the parameters, returned two different rows
\* for two different test examples, neither of them the zeros the matrix was
\* created with
C27_Witness ==
  /\ cur # 0
  /\ pc = "idle"
  /\ outcome = "ok"
  /\ eng[cur].kind = "tracin"
  /\ eng[cur].checkpoints = <<CkptA, CkptB>>
  /\ eng[cur].n = 2
  /\ nForward[cur] = 2
  /\ xq = <<Example1, Example2>>
  /\ fn.th = Theta1
  /\ attribution[1] # attribution[2]
  /\ \A r \in 1..2 : attribution[r] # Zeros(2, 2)[r]
  /\ RowsAreSingleQueries

\* the same for an InfluenceFunctions of recursion depth 1
C27_WitnessInfluence ==
  /\ cur # 0
  /\ pc = "idle"
  /\ outcome = "ok"
  /\ eng[cur].kind = "if"
  /\ eng[cur].recursion_depth = 1
  /\ eng[cur].n = 2
  /\ xq = <<Example1, Example2>>
  /\ attribution[1] # attribution[2]
  /\ RowsAreSingleQueries

\* ======================================================================
\* Order of the checkpoint list (OrderSpec)
\* ======================================================================
\* one TracIn whose checkpoint list is any list of distinct checkpoints among
\* two complete ones and one of the last layer only, on a model whose
\* parameters the caller may change before the first query; `fn` holds the
\* parameters the model had when the current query was called

OrderCkptLists ==
  {l \in SeqsUpTo({CkptA, CkptD, CkptH}, 3) :
     /\ l # <<>>
     /\ \A a, b \in 1..Len(l) : l[a] = l[b] => a = b}

OrderForward(i, x, maxq) ==
  /\ Forward(i, x, maxq)
  /\ fn' = [fn EXCEPT !.th0 = theta]

OrderInit ==
  /\ EngineInit
  /\ hook = HookInit0
  /\ graph = NoGraphEngine
  /\ sx = NoCall
  /\ fn = [op |-> "forward", th0 |-> theta]

OrderNext ==
  \/ (ConstructTracIn({1}, {"d1"}, OrderCkptLists) /\ UNCHANGED <<hook, graph, sx, fn>>)
  \/ ((\E x \in TestBatches : OrderForward(1, x, MaxQueries)) /\ UNCHANGED <<hook, graph, sx>>)
  \/ (TracInTrainStep /\ UNCHANGED <<hook, graph, sx, fn>>)
  \/ (PrecomputeDone /\ UNCHANGED <<hook, graph, sx, fn>>)
  \/ (TracInTestGrad /\ UNCHANGED <<hook, graph, sx, fn>>)
  \/ (ReadStep /\ UNCHANGED <<hook, graph, sx, fn>>)
  \/ (Return /\ UNCHANGED <<hook, graph, sx, fn>>)
  \/ (ChangeParams /\ UNCHANGED <<hook, graph, sx, fn>>)

OrderSpec == OrderInit /\ [][OrderNext]_vars

\* the loop over the examples of compute_train_grads / forward: the summed
\* gradient of every example, in order, and the parameters the model is left
\* with
RECURSIVE ExamplesLoop(_, _, _, _)
ExamplesLoop(th, checkpoints, examples, grads) ==
  IF examples = <<>> THEN [grads |-> grads, th |-> th]
  ELSE LET loop == CheckpointLoop(th, checkpoints, Head(examples), None)
       IN  ExamplesLoop(loop.th, checkpoints, Tail(examples), Append(grads, loop.grad))

\* the matrix the first query forward(x) of a new TracIn on the given
\* checkpoint list returns when the model holds th at the call:
\* compute_train_grads on X_train, then the loop over the test examples
FirstQuery(th, checkpoints, train, x) ==
  LET trainPass == ExamplesLoop(th, checkpoints, train, <<>>)
      testPass == ExamplesLoop(trainPass.th, checkpoints, x, <<>>)
  IN  [i \in 1..Len(x) |->
         [j \in 1..Len(train) |-> <<Dot(trainPass.grads[j], testPass.grads[i]), 1>>]]

\* the lists that hold the same checkpoints as l, in every order
Reorderings(l) ==
  {[k \in 1..Len(l) |-> l[perm[k]]] : perm \in Permutations(1..Len(l))}

\* a checkpoint that holds every parameter of the last layer
HoldsLastLayer(path) == {"w", "b"} \subseteq DOMAIN load_model_dict(path)

FirstQueryReturned ==
  /\ cur # 0
  /\ pc = "idle"
  /\ outcome = "ok"
  /\ eng[cur].kind = "tracin"
  /\ nForward[cur] = 1

SameInEveryOrder ==
  \A l \in Reorderings(eng[cur].checkpoints) :
    attribution = FirstQuery(fn.th0, l, X_train(cur), xq)

\* C28 as stated: the attribution a TracIn query returns is the same for every
\* permutation of its checkpoint list when each checkpoint contains all the
\* last-layer keys.
C28_OrderIndependent ==
  (/\ FirstQueryReturned
   /\ \A k \in 1..Len(eng[cur].checkpoints) : HoldsLastLayer(eng[cur].checkpoints[k]))
  => SameInEveryOrder

\* C28 amended: the same when each checkpoint contains every parameter of the
\* model.
C28_OrderIndependentCompleteCheckpoints ==
  (/\ FirstQueryReturned
   /\ \A k \in 1..Len(eng[cur].checkpoints) : Complete(eng[cur].checkpoints[k]))
  => SameInEveryOrder

\* C28 witness: a query on two different complete checkpoints, two training
\* examples and two test examples returned a matrix that is not all zero,
\* with the model left at other parameters than the reversed list leaves
C28_Witness ==
  /\ FirstQueryReturned
  /\ eng[cur].checkpoints = <<CkptA, CkptD>>
  /\ eng[cur].n = 2
  /\ xq = <<Example1, Example2>>
  /\ attribution # Zeros(2, 2)
  /\ attribution = FirstQuery(fn.th0, <<CkptD, CkptA>>, X_train(cur), xq)
  /\ theta # ExamplesLoop(fn.th0, <<CkptD, CkptA>>, xq, <<>>).th

\* ======================================================================
\* TracIn with an empty checkpoint list (EmptyListSpec)
\* ======================================================================
\* one TracIn, constructed with an empty checkpoint list or with one
\* checkpoint, on a training set of 0..MaxTrain examples

EmptyListNext ==
  \/ (ConstructTracIn({1}, {"d1"}, {<<>>, <<CkptA>>}) /\ UNCHANGED <<hook, graph, sx, fn>>)
  \/ ((\E x \in TestBatches : Forward(1, x, MaxQueries)) /\ UNCHANGED <<hook, graph, sx, fn>>)
  \/ (TracInTrainStep /\ UNCHANGED <<hook, graph, sx, fn>>)
  \/ (PrecomputeDone /\ UNCHANGED <<hook, graph, sx, fn>>)
  \/ (TracInTestGrad /\ UNCHANGED <<hook, graph, sx, fn>>)
  \/ (ReadStep /\ UNCHANGED <<hook, graph, sx, fn>>)
  \/ (Return /\ UNCHANGED <<hook, graph, sx, fn>>)
  \/ (ChangeParams /\ UNCHANGED <<hook, graph, sx, fn>>)

EmptyListSpec == Init /\ [][EmptyListNext]_vars

\* the engine of the current call is a TracIn with an empty checkpoint list
EmptyListCall ==
  /\ cur # 0
  /\ eng[cur].kind = "tracin"
  /\ eng[cur].checkpoints = <<>>

\* the step ends forward with an exception
RaisesNow == outcome = "running" /\ outcome' = "raised"

\* C29 as stated: with an empty checkpoint list a TracIn query raises during
\* precomputation, sets no train_grads flag, and never returns.
C29_EmptyListRaisesInPrecompute ==
  /\ [](\A i \in Inst : (eng[i].kind = "tracin" /\ eng[i].checkpoints = <<>>)
          => ~eng[i].train_grads)
  /\ [][(EmptyListCall /\ RaisesNow) => pc = "precompute"]_vars
  /\ [](EmptyListCall => outcome # "ok")

\* C29 amended: the same when X_train is not empty; with an empty X_train the
\* precomputation has nothing to detach, the flag is set, and the query raises
\* at the detach of the first test gradient or, for an empty x, returns a
\* matrix without entries.  No query returns a matrix that has an entry.
C29_EmptyListRaisesAtFirstDetach ==
  /\ [](\A i \in Inst : (eng[i].kind = "tracin" /\ eng[i].checkpoints = <<>>
                           /\ eng[i].n >= 1)
          => ~eng[i].train_grads)
  /\ [][(EmptyListCall /\ RaisesNow) =>
          IF eng[cur].n >= 1
          THEN pc = "precompute" /\ ti = 1 /\ ~eng[cur].train_grads'
          ELSE pc = "query" /\ qi = 1 /\ eng[cur].train_grads']_vars
  /\ [][(EmptyListCall /\ pc = "precompute" /\ eng[cur].n >= 1) => RaisesNow]_vars
  /\ [][(EmptyListCall /\ pc = "query" /\ xq # <<>>) => RaisesNow]_vars
  /\ []((EmptyListCall /\ outcome = "ok") =>
          /\ eng[cur].n = 0
          /\ xq = <<>>
          /\ attribution = <<>>)

\* C29 witness: the second query on a TracIn with an empty checkpoint list
\* and two training examples has raised in its second precomputation; no
\* cache file exists and the flag is False
C29_Witness ==
  /\ EmptyListCall
  /\ eng[cur].n = 2
  /\ nForward[cur] = 2
  /\ nCompute[cur] = 2
  /\ outcome = "raised"
  /\ xq # <<>>
  /\ ~eng[cur].train_grads
  /\ files = <<>>

\* with an empty X_train the flag is set and the query on a non-empty x has
\* raised
C29_WitnessEmptyTrain ==
  /\ EmptyListCall
  /\ eng[cur].n = 0
  /\ eng[cur].train_grads
  /\ outcome = "raised"
  /\ xq # <<>>

\* ======================================================================
\* The dispatch of the experiment scripts (DispatchSpec)
\* ======================================================================
\* one run of a script's __main__ block; `fn` holds the script, the command
\* line (whether --name and --train were given, and the value of --name), the
\* parsed args.name, the stage of the run and the experiment that was called

DispatchScripts == {"ecg", "fashion_mnist", "stl10", "cifar100"}

\* parser.add_argument("--name", type=str, default=...)
DefaultName(script) ==
  CASE script = "ecg" -> "feature_importance"
    [] script = "fashion_mnist" -> "feature_importance"
    [] script = "stl10" -> "feature importance"
    [] script = "cifar100" -> "feature importance"

\* the literal patterns of "match args.name", in the order of the cases
CasesOf(script) ==
  CASE script = "ecg" ->
         <<"feature_importance", "example_importance", "concept_importance",
           "enforce_invariance", "sensitivity_comparison">>
    [] script = "fashion_mnist" ->
         <<"feature_importance", "example_importance", "concept_importance",
           "enforce_invariance">>
    [] script = "stl10" ->
         <<"feature_importance", "example_importance", "concept_importance">>
    [] script = "cifar100" -> <<"feature importance">>

\* the exception of "case other"
ErrorOf(script) ==
  IF script \in {"ecg", "fashion_mnist"} THEN "ValueError" ELSE "NotImplementedError"

\* the values of --name that are tried
NamePool ==
  {"feature_importance", "feature importance", "example_importance",
   "concept_importance", "enforce_invariance", "sensitivity_comparison",
   "Feature_Importance", ""}

\* the index of the first case whose pattern equals the subject, 0 for
\* "case other"
RECURSIVE FirstCase(_, _, _)
FirstCase(cases, name, k) ==
  IF k > Len(cases) THEN 0
  ELSE IF cases[k] = name THEN k
  ELSE FirstCase(cases, name, k + 1)

\* args = parser.parse_args()
MainParse ==
  /\ fn.stage = "start"
  /\ fn' = [fn EXCEPT !.name = IF fn.given THEN fn.value ELSE DefaultName(fn.script),
                      !.stage = "parsed"]

\* "if args.train:" the model is trained before the dispatch
MainTrain ==
  /\ fn.stage = "parsed"
  /\ fn.train
  /\ ~fn.trained
  /\ fn' = [fn EXCEPT !.trained = TRUE]

\* "match args.name:" the first matching case calls its experiment,
\* "case other" raises
MainMatch ==
  /\ fn.stage = "parsed"
  /\ fn.train => fn.trained
  /\ LET k == FirstCase(CasesOf(fn.script), fn.name, 1)
     IN  IF k = 0
         THEN fn' = [fn EXCEPT !.stage = "raised", !.error = ErrorOf(fn.script)]
         ELSE fn' = [fn EXCEPT !.stage = "experiment", !.ran = CasesOf(fn.script)[k]]

\* the experiment returns and the script ends
MainExit ==
  /\ fn.stage = "experiment"
  /\ fn' = [fn EXCEPT !.stage = "done"]

DispatchInit ==
  /\ EngineInit
  /\ graph = NoGraphEngine
  /\ hook = HookInit0
  /\ sx = NoCall
  /\ \E script \in DispatchScripts, given \in BOOLEAN, value \in NamePool,
        train \in BOOLEAN :
       /\ ~given => value = ""
       /\ fn = [op |-> "main", script |-> script, given |-> given, value |-> value,
                train |-> train, trained |-> FALSE, name |-> "", stage |-> "start",
                ran |-> "", error |-> ""]

DispatchNext ==
  \/ (MainParse /\ UNCHANGED <<theta, hvpFrame>>)
  \/ (MainTrain /\ UNCHANGED <<theta, hvpFrame>>)
  \/ (MainMatch /\ UNCHANGED <<theta, hvpFrame>>)
  \/ (MainExit /\ UNCHANGED <<theta, hvpFrame>>)

DispatchSpec == DispatchInit /\ [][DispatchNext]_vars

\* the names of the cases of a script
CaseNames(script) == {CasesOf(script)[k] : k \in 1..Len(CasesOf(script))}

\* C30: in each of the four scripts a run without --name executes one of the
\* experiments of the dispatch, and the unrecognized-experiment error is
\* raised only for a name that no case matches.
C30_DefaultNameRunsAnExperiment ==
  /\ (fn.stage \in {"experiment", "raised", "done"} /\ ~fn.given) =>
       /\ fn.stage # "raised"
       /\ fn.ran \in CaseNames(fn.script)
  /\ fn.stage = "raised" => fn.name \notin CaseNames(fn.script)

\* the same for the scripts other than stl10
C30_DefaultNameRunsAnExperimentElsewhere ==
  /\ (fn.stage \in {"experiment", "raised", "done"} /\ ~fn.given
        /\ fn.script # "stl10") =>
       /\ fn.stage # "raised"
       /\ fn.ran = DefaultName(fn.script)
  /\ fn.stage = "raised" => fn.name \notin CaseNames(fn.script)

\* a run of stl10 without --name has raised
C30_Stl10DefaultRaised ==
  /\ fn.script = "stl10"
  /\ ~fn.given
  /\ fn.stage = "raised"
  /\ fn.error = "NotImplementedError"
  /\ fn.name = "feature importance"

====
